---- MODULE Spec2Model ----
(***************************************************************************)
(* Model of the mortality ingestion pipeline (src/src/mortalidad):         *)
(* data_loader.load_data with its cache controller, the three record       *)
(* readers, the merger and the pandera schema, and cli.validate.           *)
(*                                                                         *)
(* Text is a sequence of one-character strings, so that strip, zfill,      *)
(* upper and startswith are computed character by character.               *)
(***************************************************************************)
EXTENDS Integers, Sequences, FiniteSets, TLC

VARIABLES
    now,      \* the file system clock (st_mtime of a write is the clock's value)
    src,      \* the three required spreadsheets of RAW_FILENAMES
    csv,      \* the optional dane_municipios.csv
    cache,    \* the artifact mortalidad_2019.parquet
    pc,       \* position of the one load_data call
    call,     \* what the running (or last) call saw and did
    local,    \* the validated dataset of a pipeline run, before it is persisted
    result,   \* what the last call returned or raised
    base,     \* the last successful result, while nothing changed since
    envSteps, \* number of environment changes so far
    probe,    \* input and output of a pure function under test
    proc,     \* the load_data calls of concurrent processes, one position each
    dash      \* the dashboard process: the entries of _CACHE, the calls so far

vars == <<now, src, csv, cache, pc, call, local, result, base, envSteps, probe, proc, dash>>

mainVars == <<now, src, csv, cache, pc, call, local, result, base, envSteps, proc, dash>>

-----------------------------------------------------------------------------
(* Bounds *)

MaxTime == 2

MaxEnvSteps == 1

MaxLen == 3

-----------------------------------------------------------------------------
(* Text *)

\* pandas' <NA> / NaN / None: a value no text equals
NA == << "<NA>" >>

IsNA(s) == s = NA

Max(S) == CHOOSE m \in S : \A x \in S : x <= m

RECURSIVE LStrip(_)
LStrip(s) == IF s # <<>> /\ Head(s) = " " THEN LStrip(Tail(s)) ELSE s

RECURSIVE RStrip(_)
RStrip(s) ==
    IF s # <<>> /\ s[Len(s)] = " " THEN RStrip(SubSeq(s, 1, Len(s) - 1)) ELSE s

\* Series.str.strip(): <NA> stays <NA>
Strip(s) == IF IsNA(s) THEN NA ELSE RStrip(LStrip(s))

HasPrefix(s, p) == Len(s) >= Len(p) /\ SubSeq(s, 1, Len(p)) = p

HasSuffix(s, p) ==
    Len(s) >= Len(p) /\ SubSeq(s, Len(s) - Len(p) + 1, Len(s)) = p

\* str.replace(pat, rep, regex=False): every non-overlapping occurrence, left to right
RECURSIVE ReplaceLit(_, _, _)
ReplaceLit(s, pat, rep) ==
    IF s = <<>> THEN <<>>
    ELSE IF HasPrefix(s, pat)
         THEN rep \o ReplaceLit(SubSeq(s, Len(pat) + 1, Len(s)), pat, rep)
         ELSE <<Head(s)>> \o ReplaceLit(Tail(s), pat, rep)

RECURSIVE Zeros(_)
Zeros(n) == IF n <= 0 THEN <<>> ELSE <<"0">> \o Zeros(n - 1)

\* Series.str.zfill(width): pads on the left, never shortens
ZFill(s, width) == IF IsNA(s) THEN NA ELSE Zeros(width - Len(s)) \o s

FillNa(s, v) == IF IsNA(s) THEN v ELSE s

\* .str.replace(".0", "", regex=False)
DropDotZero(s) == IF IsNA(s) THEN NA ELSE ReplaceLit(s, <<".", "0">>, <<>>)

\* .str.replace(r"\.0$", "", regex=True)
DropTrailingDotZero(s) ==
    IF ~IsNA(s) /\ HasSuffix(s, <<".", "0">>) THEN SubSeq(s, 1, Len(s) - 2) ELSE s

_normalize_code(value, width) ==
    ZFill(FillNa(DropTrailingDotZero(DropDotZero(Strip(value))), <<>>), width)

\* no pure function is under test
NoProbe == [fn |-> "none", value |-> <<>>, width |-> 0, done |-> FALSE, out |-> <<>>]

\* no concurrent process
NoProcs == <<>>

\* a dashboard process that has just started: _CACHE is empty
NoDash == [entries |-> {}, calls |-> 0]

-----------------------------------------------------------------------------
(* Values of the final dataset *)

\* a float cell (lat, lon): NaN or a number, in units of a tenth of a degree
Num(n) == [isna |-> FALSE, n |-> n]

NumNA == [isna |-> TRUE, n |-> 0]

\* a datetime cell: NaT or a calendar date
Date(y, m, d) == [nat |-> FALSE, y |-> y, m |-> m, d |-> d]

NaT == [nat |-> TRUE, y |-> 0, m |-> 0, d |-> 0]

ALLOWED_SEXES == {<<"M">>, <<"F">>, <<"N", "R">>}

GRUPO_EDAD_LABELS ==
    [g \in 1..12 |->
        CASE g = 1 -> "Menor de 1 año"
          [] g = 2 -> "1 a 4 años"
          [] g = 3 -> "5 a 9 años"
          [] g = 4 -> "10 a 14 años"
          [] g = 5 -> "15 a 19 años"
          [] g = 6 -> "20 a 24 años"
          [] g = 7 -> "25 a 34 años"
          [] g = 8 -> "35 a 44 años"
          [] g = 9 -> "45 a 54 años"
          [] g = 10 -> "55 a 64 años"
          [] g = 11 -> "65 a 74 años"
          [] OTHER -> "75 años o más"]

\* the columns _merge_datasets selects, in its order (and MORTALITY_SCHEMA's)
DatasetColumns ==
    <<"depto_cod", "depto", "muni_cod", "municipio", "sexo", "grupo_edad",
      "grupo_edad_label", "fecha", "anio", "mes", "causa_cod", "causa",
      "homicidio_x95", "lat", "lon">>

SeqToSet(s) == {s[i] : i \in 1..Len(s)}

TextColumns == {"depto_cod", "depto", "muni_cod", "municipio", "sexo", "causa_cod", "causa"}

FloatColumns == {"lat", "lon"}

IntColumns == {"grupo_edad", "anio", "mes", "homicidio_x95"}

\* is the cell of column c null (None, NaN, <NA>, NaT)
IsNull(c, v) ==
    CASE c \in TextColumns -> IsNA(v)
      [] c = "grupo_edad_label" -> v = "<NA>"
      [] c = "fecha" -> v.nat
      [] c \in FloatColumns -> v.isna
      [] OTHER -> FALSE

\* Check.str_length(lo, hi); hi = -1 stands for None
StrLength(v, lo, hi) == Len(v) >= lo /\ (hi = -1 \/ Len(v) <= hi)

\* the Check of MORTALITY_SCHEMA's column c, on a non-null cell
ColumnCheck(c, v) ==
    CASE c = "depto_cod" -> StrLength(v, 2, 5)
      [] c = "depto" -> StrLength(v, 1, -1)
      [] c = "muni_cod" -> StrLength(v, 4, 6)
      [] c = "municipio" -> StrLength(v, 1, -1)
      [] c = "sexo" -> v \in ALLOWED_SEXES
      [] c = "grupo_edad" -> v \in DOMAIN GRUPO_EDAD_LABELS
      [] c = "grupo_edad_label" -> v # ""
      [] c = "anio" -> v = 2019
      [] c = "mes" -> v \in 1..12
      [] c = "causa_cod" -> StrLength(v, 3, 5)
      [] c = "homicidio_x95" -> v \in {0, 1}
      [] OTHER -> TRUE

\* Column(..., nullable=True)
Nullable(c) == c \in {"causa", "lat", "lon"}

\* the dtype MORTALITY_SCHEMA declares for column c (coerce=True casts to it)
SchemaDtype(c) ==
    CASE c \in IntColumns -> "int64"
      [] c \in FloatColumns -> "float64"
      [] c = "fecha" -> "datetime64[ns]"
      [] OTHER -> "object"

\* the failure of column c on dataset ds, "" when the column passes:
\* a missing column, a null in a non-nullable column, or a failed Check
ColumnFailure(ds, c) ==
    IF c \notin SeqToSet(ds.columns) THEN "column_in_dataframe"
    ELSE IF \E i \in 1..Len(ds.rows) : IsNull(c, ds.rows[i][c]) /\ ~Nullable(c)
         THEN "not_nullable"
    ELSE IF \E i \in 1..Len(ds.rows) :
                ~IsNull(c, ds.rows[i][c]) /\ ~ColumnCheck(c, ds.rows[i][c])
         THEN "check"
    ELSE ""

\* every failing column of MORTALITY_SCHEMA with its failure
SchemaFailures(ds) ==
    {f \in {<<c, ColumnFailure(ds, c)>> : c \in SeqToSet(DatasetColumns)} : f[2] # ""}

ColumnIndex(c) == CHOOSE i \in 1..Len(DatasetColumns) : DatasetColumns[i] = c

\* the failure pandera meets first: column presence is checked for the whole
\* frame before any column's checks run, columns are taken in schema order
FirstFailure(fs) ==
    LET missing == {f \in fs : f[2] = "column_in_dataframe"}
        pool == IF missing # {} THEN missing ELSE fs
    IN  CHOOSE f \in pool : \A g \in pool : ColumnIndex(f[1]) <= ColumnIndex(g[1])

\* coerce=True: every schema column is cast to its declared dtype;
\* columns the schema does not name are left as they are (strict=False)
Coerce(ds) ==
    [ds EXCEPT !.dtypes = [c \in DOMAIN ds.dtypes |->
        IF c \in SeqToSet(DatasetColumns) THEN SchemaDtype(c) ELSE ds.dtypes[c]]]

\* MORTALITY_SCHEMA.validate(ds, lazy=lazy): lazy collects every failure
\* (SchemaErrors), otherwise the first failure is raised alone (SchemaError)
Validation(ds, lazy, fs) ==
    IF fs = {} THEN [ok |-> TRUE, data |-> Coerce(ds), errors |-> {}]
    ELSE [ok |-> FALSE, data |-> ds, errors |-> IF lazy THEN fs ELSE {FirstFailure(fs)}]

SchemaValidate(ds, lazy) == Validation(ds, lazy, SchemaFailures(ds))


-----------------------------------------------------------------------------
(* Raw spreadsheet cells and tables, as pandas.read_excel returns them *)

DigitChars == <<"0", "1", "2", "3", "4", "5", "6", "7", "8", "9">>

IsDigit(ch) == \E i \in 1..10 : DigitChars[i] = ch

DigitVal(ch) == (CHOOSE i \in 1..10 : DigitChars[i] = ch) - 1

\* str(n) of a non-negative integer
RECURSIVE Digits(_)
Digits(n) ==
    IF n < 10 THEN <<DigitChars[n + 1]>>
    ELSE Digits(n \div 10) \o <<DigitChars[(n % 10) + 1]>>

\* an integer cell, an integral float cell (11.0), a text cell, an empty cell
IntCell(n) == [t |-> "int", n |-> n, v |-> Digits(n)]

FltCell(n) == [t |-> "float", n |-> n, v |-> Digits(n) \o <<".", "0">>]

TxtCell(v) == [t |-> "str", n |-> 0, v |-> v]

NaN == [t |-> "nan", n |-> 0, v |-> <<>>]

\* Python's None, where a cell is expected
None == [t |-> "none", n |-> 0, v |-> <<"N", "o", "n", "e">>]

\* Series.astype("string") of a cell
AsString(c) == IF c.t = "nan" THEN NA ELSE c.v

\* Python's str(value) of a cell
PyStr(c) == IF c.t = "nan" THEN <<"n", "a", "n">> ELSE c.v

LowerLetters ==
    <<"a", "b", "c", "d", "e", "f", "g", "h", "i", "j", "k", "l", "m", "n",
      "o", "p", "q", "r", "s", "t", "u", "v", "w", "x", "y", "z", "ó">>

UpperLetters ==
    <<"A", "B", "C", "D", "E", "F", "G", "H", "I", "J", "K", "L", "M", "N",
      "O", "P", "Q", "R", "S", "T", "U", "V", "W", "X", "Y", "Z", "Ó">>

UpperChar(ch) ==
    IF \E i \in 1..Len(LowerLetters) : LowerLetters[i] = ch
    THEN UpperLetters[CHOOSE i \in 1..Len(LowerLetters) : LowerLetters[i] = ch]
    ELSE ch

LowerChar(ch) ==
    IF \E i \in 1..Len(UpperLetters) : UpperLetters[i] = ch
    THEN LowerLetters[CHOOSE i \in 1..Len(UpperLetters) : UpperLetters[i] = ch]
    ELSE ch

IsLetter(ch) == UpperChar(ch) # ch \/ LowerChar(ch) # ch

\* str.upper(), str.lower(), str.title(); <NA> stays <NA>
Upper(s) == IF IsNA(s) THEN NA ELSE [i \in 1..Len(s) |-> UpperChar(s[i])]

Lower(s) == IF IsNA(s) THEN NA ELSE [i \in 1..Len(s) |-> LowerChar(s[i])]

Title(s) ==
    IF IsNA(s) THEN NA
    ELSE [i \in 1..Len(s) |->
            IF i > 1 /\ IsLetter(s[i - 1]) THEN LowerChar(s[i]) ELSE UpperChar(s[i])]

AllDigits(s) == s # <<>> /\ \A i \in 1..Len(s) : IsDigit(s[i])

RECURSIVE ParseInt(_)
ParseInt(s) ==
    IF s = <<>> THEN 0 ELSE 10 * ParseInt(SubSeq(s, 1, Len(s) - 1)) + DigitVal(s[Len(s)])

\* can pandas.to_numeric turn the cell into a number, and into which
IsNumeric(c) == c.t \in {"int", "float"} \/ (c.t = "str" /\ AllDigits(Strip(c.v)))

NumVal(c) == IF c.t = "str" THEN ParseInt(Strip(c.v)) ELSE c.n

\* astype("int16") of an integer: numpy keeps the low 16 bits
ToInt16(n) == ((n + 32768) % 65536) - 32768

\* a raw table: its header and its rows (each a function from header to cell)
Table(columns, rows) == [columns |-> columns, rows |-> rows]

\* an exception: its type, the place that raises it, and what it names
Error(type, where) ==
    [type |-> type, where |-> where, cols |-> {}, path |-> "", failures |-> {},
     message |-> ""]

RECORDS_COLUMN_MAP ==
    [c \in {"DPTO_OCURRE", "DEPTO_OCURRE", "MUN_OCURRE", "MUNI_OCURRE", "SEXO",
            "SEXO_DEF", "GRUPO_EDAD1", "FECHA_DEF", "FECHA_OCURR", "CAUSA_DEF",
            "COD_DEPARTAMENTO", "COD_MUNICIPIO", "COD_MUERTE"} |->
        CASE c \in {"DPTO_OCURRE", "DEPTO_OCURRE", "COD_DEPARTAMENTO"} -> "depto_cod"
          [] c \in {"MUN_OCURRE", "MUNI_OCURRE", "COD_MUNICIPIO"} -> "muni_cod"
          [] c \in {"SEXO", "SEXO_DEF"} -> "sexo"
          [] c = "GRUPO_EDAD1" -> "grupo_edad"
          [] c \in {"FECHA_DEF", "FECHA_OCURR"} -> "fecha"
          [] OTHER -> "causa_cod"]

\* the synonym table of lines 137-152, on the trimmed upper-case text
SexMapping(text) ==
    CASE text \in {<<"M", "A", "S", "C", "U", "L", "I", "N", "O">>,
                   <<"H", "O", "M", "B", "R", "E">>, <<"1">>, <<"M">>} -> <<"M">>
      [] text \in {<<"F", "E", "M", "E", "N", "I", "N", "O">>,
                   <<"M", "U", "J", "E", "R">>, <<"2">>, <<"F">>} -> <<"F">>
      [] text \in {<<"3">>, <<"9">>, <<"0">>, <<"N", "R">>,
                   <<"S", "I", "N", " ", "I", "N", "F", "O", "R", "M", "A", "C", "I", "O", "N">>,
                   <<"S", "I", "N", " ", "I", "N", "F", "O", "R", "M", "A", "C", "I", "Ó", "N">>}
           -> <<"N", "R">>
      [] OTHER -> text

\* the function without the fallback of lines 154-155
_normalize_sex_unchecked(value) ==
    IF value.t = "none" THEN <<"N", "R">>
    ELSE SexMapping(Upper(Strip(PyStr(value))))

_normalize_sex(value) ==
    IF value.t = "none" THEN <<"N", "R">>
    ELSE IF SexMapping(Upper(Strip(PyStr(value)))) \in ALLOWED_SEXES
         THEN SexMapping(Upper(Strip(PyStr(value))))
         ELSE <<"N", "R">>

\* the cell of column c in a row, or the default when the table lacks the column
CellOr(raw, row, c, default) == IF c \in SeqToSet(raw.columns) THEN row[c] ELSE default

\* pd.to_datetime({"year": .., "month": .., "day": 1}, errors="coerce")
FirstOfMonth(y, m) ==
    IF IsNumeric(y) /\ IsNumeric(m)
    \* the parts are added up as year * 10000 + month * 100 + day and the sum
    \* is parsed with the format %Y%m%d
    THEN LET stamp == NumVal(y) * 10000 + NumVal(m) * 100 + 1
             year == stamp \div 10000
             month == (stamp \div 100) % 100
         IN  IF stamp \in 10000000..99999999 /\ month \in 1..12 /\ year \in 1678..2261
             THEN Date(year, month, stamp % 100)
             ELSE NaT
    ELSE NaT

\* the text of muni_cod before normalisation, in the year/month scheme
ComposeMuni(raw, row) ==
    IF "COD_DANE" \in SeqToSet(raw.columns)
    THEN Strip(AsString(row["COD_DANE"]))
    ELSE LET dept == ZFill(Strip(AsString(row["COD_DEPARTAMENTO"])), 2)
             muni == ZFill(Strip(AsString(row["COD_MUNICIPIO"])), 3)
         IN  IF IsNA(dept) \/ IsNA(muni) THEN NA ELSE dept \o muni

\* lines 246-262 on one row of the year/month scheme, given its upper-cased
\* cause code, its date and its 16-bit age group
Standardized(raw, row, causa, fecha, grupo) ==
        [depto_cod |-> _normalize_code(AsString(row["COD_DEPARTAMENTO"]), 2),
         muni_cod |-> _normalize_code(ComposeMuni(raw, row), 5),
         sexo |-> IF "SEXO" \in SeqToSet(raw.columns)
                  THEN _normalize_sex(row["SEXO"]) ELSE <<"N", "R">>,
         grupo_edad |-> grupo,
         fecha |-> fecha,
         causa_cod |-> causa,
         anio |-> fecha.y,
         mes |-> fecha.m,
         grupo_edad_label |-> IF grupo \in DOMAIN GRUPO_EDAD_LABELS
                              THEN GRUPO_EDAD_LABELS[grupo] ELSE "Sin clasificación",
         homicidio_x95 |-> IF ~IsNA(causa) /\ HasPrefix(causa, <<"X", "9", "5">>)
                           THEN 1 ELSE 0]

StandardizeRecord(raw, row) ==
    Standardized(raw, row, Upper(Strip(AsString(row["COD_MUERTE"]))),
                 FirstOfMonth(row["AÑO"], row["MES"]),
                 ToInt16(NumVal(row["GRUPO_EDAD1"])))

_prepare_records(raw) ==
    LET available == SeqToSet(raw.columns)
        KeepsDate(row) == ~FirstOfMonth(row["AÑO"], row["MES"]).nat
    IN  IF {"FECHA_DEF", "FECHA_OCURR"} \cap available # {}
        THEN IF DOMAIN RECORDS_COLUMN_MAP \ available # {}
             THEN [ok |-> FALSE, rows |-> <<>>,
                   error |-> [Error("ValueError", "_prepare_records")
                              EXCEPT !.cols = DOMAIN RECORDS_COLUMN_MAP \ available]]
             \* every synonym is present: the rename yields two "fecha" columns
             \* and pd.to_datetime refuses to assemble a frame with duplicate keys
             ELSE [ok |-> FALSE, rows |-> <<>>,
                   error |-> Error("ValueError", "pd.to_datetime")]
        ELSE IF {"AÑO", "MES", "COD_DEPARTAMENTO", "COD_MUNICIPIO", "COD_MUERTE"}
                    \subseteq available
        THEN LET kept == SelectSeq(raw.rows, KeepsDate)
             IN  IF "GRUPO_EDAD1" \notin available
                    \/ \E i \in 1..Len(kept) : ~IsNumeric(kept[i]["GRUPO_EDAD1"])
                 \* pd.to_numeric(errors="raise") on text, astype("int16") on NaN
                 THEN [ok |-> FALSE, rows |-> <<>>,
                       error |-> Error("ValueError", "grupo_edad")]
                 ELSE [ok |-> TRUE,
                       rows |-> [i \in 1..Len(kept) |-> StandardizeRecord(raw, kept[i])],
                       error |-> Error("", "")]
        ELSE [ok |-> FALSE, rows |-> <<>>,
              error |-> Error("ValueError", "_prepare_records: estructura no soportada")]


-----------------------------------------------------------------------------
(* Cause catalog *)

code3_col == "Código de la CIE-10 tres caracteres"

desc3_col == "Descripción  de códigos mortalidad a tres caracteres"

code4_col == "Código de la CIE-10 cuatro caracteres"

desc4_col == "Descripcion  de códigos mortalidad a cuatro caracteres"

CAUSES_COLUMN_MAP ==
    [c \in {"CODIGO", "COD_CAUSA", "DESCRIPCION", "NOMBRE"} |->
        IF c \in {"CODIGO", "COD_CAUSA"} THEN "causa_cod" ELSE "causa"]

SinDescripcion ==
    <<"S", "i", "n", " ", "d", "e", "s", "c", "r", "i", "p", "c", "i", "ó", "n">>

\* str(row.get(col, "")).strip()
RowText(raw, row, c) ==
    IF c \in SeqToSet(raw.columns) THEN Strip(PyStr(row[c])) ELSE <<>>

\* `x or y`: the first non-empty text
Or(x, y) == IF x # <<>> THEN x ELSE y

IsCode(code) == code # <<>> /\ Lower(code) # <<"n", "a", "n">>

\* the catalog entries one row of the wide sheet yields (lines 277-292)
ExpandCauseRow(raw, row) ==
    LET code3 == RowText(raw, row, code3_col)
        desc3 == RowText(raw, row, desc3_col)
        code4 == RowText(raw, row, code4_col)
        desc4 == RowText(raw, row, desc4_col)
        e3 == IF IsCode(code3)
              THEN <<[causa_cod |-> Upper(code3), causa |-> Or(desc3, SinDescripcion)]>>
              ELSE <<>>
        e4 == IF IsCode(code4)
              THEN <<[causa_cod |-> Upper(code4),
                      causa |-> Or(desc4, Or(desc3, SinDescripcion))]>>
              ELSE <<>>
    IN  e3 \o e4

RECURSIVE ExpandCauses(_, _)
ExpandCauses(raw, rows) ==
    IF rows = <<>> THEN <<>>
    ELSE ExpandCauseRow(raw, Head(rows)) \o ExpandCauses(raw, Tail(rows))

\* the values of a row in the columns of subset
KeyOf(row, subset) == [c \in subset |-> row[c]]

\* a catalog that keeps every row, repeated keys included
KeepDuplicates(rows, subset, seen) == rows

\* DataFrame.drop_duplicates(subset=...): the first row of each key stays
RECURSIVE DropDuplicates(_, _, _)
DropDuplicates(rows, subset, seen) ==
    IF rows = <<>> THEN <<>>
    ELSE IF KeyOf(Head(rows), subset) \in seen
         THEN DropDuplicates(Tail(rows), subset, seen)
         ELSE <<Head(rows)>>
                  \o DropDuplicates(Tail(rows), subset, seen \cup {KeyOf(Head(rows), subset)})

_prepare_causes(raw) ==
    LET columns == SeqToSet(raw.columns)
        NotAllNa(row) == \E c \in columns : row[c].t # "nan"
    IN  IF {code3_col, desc3_col} \subseteq columns
        THEN LET records == ExpandCauses(raw, SelectSeq(raw.rows, NotAllNa))
             IN  IF records = <<>>
                 THEN [ok |-> FALSE, rows |-> <<>>,
                       error |-> Error("ValueError", "_prepare_causes: sin códigos")]
                 ELSE [ok |-> TRUE, rows |-> DropDuplicates(records, {"causa_cod"}, {}),
                       error |-> Error("", "")]
        ELSE IF DOMAIN CAUSES_COLUMN_MAP \ columns # {}
        THEN [ok |-> FALSE, rows |-> <<>>,
              error |-> [Error("ValueError", "_prepare_causes")
                         EXCEPT !.cols = DOMAIN CAUSES_COLUMN_MAP \ columns]]
        \* all four synonyms present: the rename yields two "causa_cod" columns,
        \* causes["causa_cod"] is a DataFrame and has no .str accessor
        ELSE [ok |-> FALSE, rows |-> <<>>,
              error |-> Error("AttributeError", "_prepare_causes")]


-----------------------------------------------------------------------------
(* Geographic catalog and its two enrichment passes *)

DIVIPOLA_COLUMN_MAP ==
    [c \in {"COD_DEPTO", "COD_DEPARTAMENTO", "NOM_DEPTO", "NOM_DEPARTAMENTO",
            "COD_MPIO", "COD_MUNICIPIO", "NOM_MPIO", "NOM_MUNICIPIO",
            "LAT", "LATITUD", "LON", "LONGITUD"} |->
        CASE c \in {"COD_DEPTO", "COD_DEPARTAMENTO"} -> "depto_cod"
          [] c \in {"NOM_DEPTO", "NOM_DEPARTAMENTO"} -> "depto"
          [] c \in {"COD_MPIO", "COD_MUNICIPIO"} -> "muni_cod"
          [] c \in {"NOM_MPIO", "NOM_MUNICIPIO"} -> "municipio"
          [] c \in {"LAT", "LATITUD"} -> "lat"
          [] OTHER -> "lon"]

GeoColumns == {"depto_cod", "depto", "muni_cod", "municipio", "lat", "lon"}

\* the text of a coordinate of k tenths of a degree: 47 is "4.7", -740 is "-74.0"
TenthsText(k) ==
    LET a == IF k < 0 THEN 0 - k ELSE k
    IN  (IF k < 0 THEN <<"-">> ELSE <<>>) \o Digits(a \div 10) \o <<".">> \o Digits(a % 10)

\* a float cell holding a coordinate, in tenths of a degree
Coord(k) == [t |-> "float", n |-> k, v |-> TenthsText(k)]

\* pd.to_numeric(errors="coerce") of a coordinate text with at most one decimal;
\* anything else (a decimal comma, letters, the empty text) is NaN
ParseTenths(s) ==
    LET neg == s # <<>> /\ Head(s) = "-"
        body == IF neg THEN Tail(s) ELSE s
        dot == {i \in 1..Len(body) : body[i] = "."}
        whole == IF dot = {} THEN body ELSE SubSeq(body, 1, Max(dot) - 1)
        frac == IF dot = {} THEN <<"0">> ELSE SubSeq(body, Max(dot) + 1, Len(body))
    IN  IF Cardinality(dot) <= 1 /\ AllDigits(whole) /\ AllDigits(frac) /\ Len(frac) = 1
        THEN Num((IF neg THEN -1 ELSE 1) * (10 * ParseInt(whole) + ParseInt(frac)))
        ELSE NumNA

\* pd.to_numeric(errors="coerce") of a coordinate cell
CoordOf(c) ==
    CASE c.t = "nan" -> NumNA
      [] c.t = "str" -> ParseTenths(IF IsNA(Strip(c.v)) THEN <<>> ELSE Strip(c.v))
      [] OTHER -> Num(c.n)

\* a text or a number put back into a cell
TextCell(s) == IF IsNA(s) THEN NaN ELSE TxtCell(s)

NumCell(x) == IF x.isna THEN NaN ELSE Coord(x.n)

\* str.replace(r"\D", "", regex=True)
RECURSIVE OnlyDigits(_)
OnlyDigits(s) ==
    IF s = <<>> THEN <<>>
    ELSE (IF IsDigit(Head(s)) THEN <<Head(s)>> ELSE <<>>) \o OnlyDigits(Tail(s))

\* the dtype family of a key column of the primary table: pandas refuses to
\* merge a numeric key column with a string one
KeyKind(rows, c) ==
    IF \A i \in 1..Len(rows) : rows[i][c].t \in {"str", "nan"} THEN "str" ELSE "num"

SameKey(l, r) ==
    /\ AsString(l.depto_cod) = AsString(r.depto_cod)
    /\ AsString(l.muni_cod) = AsString(r.muni_cod)

\* a fill that lets the other source win wherever it has a value
FillCellOverwrite(mine, other) == IF other.t # "nan" THEN other ELSE mine

\* Series.fillna(other): the cell stays unless it is null
FillCell(mine, other) == IF mine.t = "nan" THEN other ELSE mine

FillRow(l, r) ==
    [l EXCEPT !.depto = FillCell(l.depto, r.depto),
              !.municipio = FillCell(l.municipio, r.municipio),
              !.lat = FillCell(l.lat, r.lat),
              !.lon = FillCell(l.lon, r.lon)]

\* renamed.merge(other, on=["depto_cod", "muni_cod"], how="left") followed by the
\* fillna loop: one row for every match of a left row, the left row alone without
RECURSIVE MergeFill(_, _)
MergeFill(left, right) ==
    IF left = <<>> THEN <<>>
    ELSE LET l == Head(left)
             Matches(r) == SameKey(l, r)
             hits == SelectSeq(right, Matches)
         IN  (IF hits = <<>> THEN <<l>> ELSE [i \in 1..Len(hits) |-> FillRow(l, hits[i])])
             \o MergeFill(Tail(left), right)

\* the primary table: lines 315-353
PrimaryGeo(raw) ==
    LET columns == SeqToSet(raw.columns)
        AltRow(row) ==
            [depto_cod |-> TextCell(Strip(AsString(row["COD_DEPARTAMENTO"]))),
             depto |-> row["DEPARTAMENTO"],
             muni_cod |-> TextCell(ComposeMuni(raw, row)),
             municipio |-> row["MUNICIPIO"],
             lat |-> CellOr(raw, row, "LAT", NaN),
             lon |-> CellOr(raw, row, "LON", NaN)]
        StdRow(row) == [c \in GeoColumns |-> row[c]]
    IN  IF GeoColumns \subseteq columns
        THEN [ok |-> TRUE, rows |-> [i \in 1..Len(raw.rows) |-> StdRow(raw.rows[i])],
              error |-> Error("", "")]
        ELSE IF {"COD_DEPARTAMENTO", "COD_MUNICIPIO", "DEPARTAMENTO", "MUNICIPIO"}
                    \subseteq columns
        THEN [ok |-> TRUE, rows |-> [i \in 1..Len(raw.rows) |-> AltRow(raw.rows[i])],
              error |-> Error("", "")]
        ELSE [ok |-> FALSE, rows |-> <<>>,
              error |-> [Error("ValueError", "_prepare_divipola")
                         EXCEPT !.cols = DOMAIN DIVIPOLA_COLUMN_MAP \ columns]]

\* pass 1, lines 355-390: the sheet "Hoja3" of the same workbook
Hoja3Rename ==
    [c \in {"Departamento", "Unnamed: 1", "Municipio", "Unnamed: 3", "Localización",
            "Unnamed: 6"} |->
        CASE c = "Departamento" -> "depto_cod"
          [] c = "Unnamed: 1" -> "depto"
          [] c = "Municipio" -> "muni_cod"
          [] c = "Unnamed: 3" -> "municipio"
          [] c = "Localización" -> "lon"
          [] OTHER -> "lat"]

Renamed(columns, map) == {IF c \in DOMAIN map THEN map[c] ELSE c : c \in columns}

\* the raw column that carries canonical column g after the rename
SourceOf(columns, map, g) ==
    CHOOSE c \in columns : (IF c \in DOMAIN map THEN map[c] ELSE c) = g

CommaToDot(s) == IF IsNA(s) THEN NA ELSE ReplaceLit(s, <<",">>, <<".">>)

Hoja3Row(sheet, row) ==
    LET cols == SeqToSet(sheet.columns)
        Cell(g) == row[SourceOf(cols, Hoja3Rename, g)]
        Number(g) == LET text == CommaToDot(AsString(Cell(g)))
                     IN  IF IsNA(text) THEN NumNA ELSE ParseTenths(text)
    IN  [depto_cod |-> TextCell(ZFill(Strip(AsString(Cell("depto_cod"))), 2)),
         muni_cod |-> TextCell(ZFill(Strip(AsString(Cell("muni_cod"))), 5)),
         depto |-> TextCell(Strip(AsString(Cell("depto")))),
         municipio |-> TextCell(Strip(AsString(Cell("municipio")))),
         lat |-> NumCell(Number("lat")),
         lon |-> NumCell(Number("lon"))]

\* the primary table after pass 1; any exception leaves it as it was
EnrichFromSheet(renamed, book) ==
    IF ~book.hasHoja3 THEN renamed
    ELSE LET sheet == book.hoja3
             cols == Renamed(SeqToSet(sheet.columns), Hoja3Rename)
             body == Tail(sheet.rows)
         IN  IF sheet.rows = <<>> \/ ~(GeoColumns \subseteq cols) THEN renamed
             ELSE IF KeyKind(renamed, "depto_cod") # "str"
                        \/ KeyKind(renamed, "muni_cod") # "str" THEN renamed
             ELSE MergeFill(renamed, [i \in 1..Len(body) |-> Hoja3Row(sheet, body[i])])

\* pass 2, lines 392-434: the optional dane_municipios.csv
CatalogRename ==
    [c \in {"COD_DPTO", "NOM_DPTO", "COD_MPIO", "NOM_MPIO", "LATITUD", "LONGITUD"} |->
        CASE c = "COD_DPTO" -> "depto_cod"
          [] c = "NOM_DPTO" -> "depto"
          [] c = "COD_MPIO" -> "muni_cod"
          [] c = "NOM_MPIO" -> "municipio"
          [] c = "LATITUD" -> "lat"
          [] OTHER -> "lon"]

CatalogRow(table, row) ==
    LET cols == SeqToSet(table.columns)
        Cell(g) == row[SourceOf(cols, CatalogRename, g)]
        Code(g, w) == LET text == AsString(Cell(g))
                      IN  IF IsNA(text) THEN NA ELSE ZFill(OnlyDigits(text), w)
    IN  [depto_cod |-> TextCell(Code("depto_cod", 2)),
         muni_cod |-> TextCell(Code("muni_cod", 5)),
         depto |-> TextCell(Title(Strip(AsString(Cell("depto"))))),
         municipio |-> TextCell(Title(Strip(AsString(Cell("municipio"))))),
         lat |-> NumCell(CoordOf(Cell("lat"))),
         lon |-> NumCell(CoordOf(Cell("lon")))]

\* a pass 2 that goes on without the columns the file lacks
CatalogRowLenient(table, row) ==
    LET cols == SeqToSet(table.columns)
        Cell(g) == IF g \in Renamed(cols, CatalogRename)
                   THEN row[SourceOf(cols, CatalogRename, g)] ELSE NaN
        Code(g, w) == LET text == AsString(Cell(g))
                      IN  IF IsNA(text) THEN NA ELSE ZFill(OnlyDigits(text), w)
    IN  [depto_cod |-> TextCell(Code("depto_cod", 2)),
         muni_cod |-> TextCell(Code("muni_cod", 5)),
         depto |-> TextCell(Title(Strip(AsString(Cell("depto"))))),
         municipio |-> TextCell(Title(Strip(AsString(Cell("municipio"))))),
         lat |-> NumCell(CoordOf(Cell("lat"))),
         lon |-> NumCell(CoordOf(Cell("lon")))]

EnrichFromCatalogLenient(renamed, file) ==
    IF ~file.exists THEN renamed
    ELSE IF KeyKind(renamed, "depto_cod") # "str" \/ KeyKind(renamed, "muni_cod") # "str"
         THEN renamed
    ELSE MergeFill(renamed,
            [i \in 1..Len(file.content.rows) |->
                CatalogRowLenient(file.content, file.content.rows[i])])

\* the table after pass 2; an absent file is no error, any exception is logged
\* and leaves the table as it was
EnrichFromCatalog(renamed, file) ==
    IF ~file.exists THEN renamed
    ELSE LET table == file.content
             cols == Renamed(SeqToSet(table.columns), CatalogRename)
         IN  IF ~(GeoColumns \subseteq cols) THEN renamed
             ELSE IF KeyKind(renamed, "depto_cod") # "str"
                        \/ KeyKind(renamed, "muni_cod") # "str" THEN renamed
             ELSE MergeFill(renamed,
                     [i \in 1..Len(table.rows) |-> CatalogRow(table, table.rows[i])])

\* lines 436-442 on one row
NormalizeGeoRow(row) ==
    [depto_cod |-> _normalize_code(AsString(row.depto_cod), 2),
     muni_cod |-> _normalize_code(AsString(row.muni_cod), 5),
     depto |-> Title(Strip(AsString(row.depto))),
     municipio |-> Title(Strip(AsString(row.municipio))),
     lat |-> CoordOf(row.lat),
     lon |-> CoordOf(row.lon)]

\* the two passes in the other order: the file first, the sheet second
_prepare_divipola_catalog_first(book, catalog) ==
    LET primary == PrimaryGeo(book.sheet)
    IN  IF ~primary.ok THEN primary
        ELSE LET enriched == EnrichFromSheet(EnrichFromCatalog(primary.rows, catalog), book)
                 normal == [i \in 1..Len(enriched) |-> NormalizeGeoRow(enriched[i])]
             IN  [ok |-> TRUE, rows |-> DropDuplicates(normal, {"depto_cod", "muni_cod"}, {}),
                  error |-> Error("", "")]

_prepare_divipola(book, catalog) ==
    LET primary == PrimaryGeo(book.sheet)
    IN  IF ~primary.ok THEN primary
        ELSE LET enriched == EnrichFromCatalog(EnrichFromSheet(primary.rows, book), catalog)
                 normal == [i \in 1..Len(enriched) |-> NormalizeGeoRow(enriched[i])]
             IN  [ok |-> TRUE, rows |-> DropDuplicates(normal, {"depto_cod", "muni_cod"}, {}),
                  error |-> Error("", "")]


-----------------------------------------------------------------------------
(* Merger, parquet artifact *)

SinInformacin == <<"S", "i", "n", " ", "i", "n", "f", "o", "r", "m", "a", "c", "i", "n">>

\* dtypes of the merged frame before validation (lines 246-262, 436-441)
PipelineDtype(c) ==
    CASE c \in {"depto_cod", "depto", "muni_cod", "municipio", "causa_cod"} -> "string"
      [] c \in {"grupo_edad", "anio", "mes"} -> "int16"
      [] c = "homicidio_x95" -> "int8"
      [] c = "fecha" -> "datetime64[ns]"
      [] c \in FloatColumns -> "float64"
      [] OTHER -> "object"

\* what a record gets from a catalog that has no entry for its key
NoCause == [causa |-> NA]

NoPlace == [depto |-> NA, municipio |-> NA, lat |-> NumNA, lon |-> NumNA]

\* one record left-joined with the cause catalog and then with the geo
\* catalog: a row for every pair of matching entries, the record alone where
\* a catalog has none
MergeRows(rec, causes, geo) ==
    LET IsCause(e) == e.causa_cod = rec.causa_cod
        IsPlace(g) == g.depto_cod = rec.depto_cod /\ g.muni_cod = rec.muni_cod
        found == SelectSeq(causes, IsCause)
        places == SelectSeq(geo, IsPlace)
        cs == IF found = <<>> THEN <<NoCause>> ELSE found
        gs == IF places = <<>> THEN <<NoPlace>> ELSE places
        Row(c, g) ==
            [depto_cod |-> rec.depto_cod,
             depto |-> g.depto,
             muni_cod |-> rec.muni_cod,
             municipio |-> g.municipio,
             sexo |-> rec.sexo,
             grupo_edad |-> rec.grupo_edad,
             grupo_edad_label |-> rec.grupo_edad_label,
             fecha |-> rec.fecha,
             anio |-> rec.anio,
             mes |-> rec.mes,
             causa_cod |-> rec.causa_cod,
             causa |-> c.causa,
             homicidio_x95 |-> rec.homicidio_x95,
             lat |-> g.lat,
             lon |-> g.lon]
    IN  [k \in 1..(Len(cs) * Len(gs)) |->
            Row(cs[((k - 1) \div Len(gs)) + 1], gs[((k - 1) % Len(gs)) + 1])]

\* the rows of the two left merges, in the order of the records
RECURSIVE MergeAll(_, _, _)
MergeAll(records, causes, geo) ==
    IF records = <<>> THEN <<>>
    ELSE MergeRows(Head(records), causes, geo) \o MergeAll(Tail(records), causes, geo)

\* validate="many_to_one": the keys of the right table are unique
ManyToOne(divipola) ==
    \A i, j \in 1..Len(divipola) :
        KeyOf(divipola[i], {"depto_cod", "muni_cod"}) = KeyOf(divipola[j], {"depto_cod", "muni_cod"})
            => i = j

_merge_datasets(records, causes, divipola) ==
    [columns |-> DatasetColumns,
     dtypes |-> [c \in SeqToSet(DatasetColumns) |-> PipelineDtype(c)],
     rows |-> MergeAll(records, causes, divipola)]

\* lines 518-522: placeholder names, then the rows of a known age group
FillAndFilter(dataset) ==
    LET Filled(r) == [r EXCEPT !.depto = FillNa(r.depto, SinInformacin),
                               !.municipio = FillNa(r.municipio, SinInformacin)]
        Known(r) == r.grupo_edad \in DOMAIN GRUPO_EDAD_LABELS
    IN  [dataset EXCEPT !.rows =
            SelectSeq([i \in 1..Len(dataset.rows) |-> Filled(dataset.rows[i])], Known)]

\* the parquet physical/logical type pandas' dtype is stored as, and back
ParquetType(dtype) ==
    CASE dtype \in {"object", "string"} -> "BYTE_ARRAY/UTF8"
      [] dtype = "int64" -> "INT64"
      [] dtype = "int16" -> "INT32/INT_16"
      [] dtype = "int8" -> "INT32/INT_8"
      [] dtype = "float64" -> "DOUBLE"
      [] OTHER -> "INT64/TIMESTAMP"

PandasDtype(ptype) ==
    CASE ptype = "BYTE_ARRAY/UTF8" -> "object"
      [] ptype = "INT64" -> "int64"
      [] ptype = "INT32/INT_16" -> "int16"
      [] ptype = "INT32/INT_8" -> "int8"
      [] ptype = "DOUBLE" -> "float64"
      [] OTHER -> "datetime64[ns]"

\* a writer that keeps only the rows without a null
to_parquet_dropna(df) ==
    [schema |-> [i \in 1..Len(df.columns) |->
                    [name |-> df.columns[i], type |-> ParquetType(df.dtypes[df.columns[i]])]],
     rows |-> SelectSeq(df.rows, LAMBDA r : \A c \in DOMAIN r : ~IsNull(c, r[c]))]

\* DataFrame.to_parquet(cache_path, index=False): the columns in order, each
\* with its parquet type, and the rows; nulls are stored as nulls
to_parquet(df) ==
    [schema |-> [i \in 1..Len(df.columns) |->
                    [name |-> df.columns[i], type |-> ParquetType(df.dtypes[df.columns[i]])]],
     rows |-> df.rows]

\* pd.read_parquet(cache_path)
read_parquet(file) ==
    [columns |-> [i \in 1..Len(file.schema) |-> file.schema[i].name],
     dtypes |-> [c \in {file.schema[i].name : i \in 1..Len(file.schema)} |->
                    PandasDtype((CHOOSE e \in SeqToSet(file.schema) : e.name = c).type)],
     rows |-> file.rows]

NoDataset == [columns |-> <<>>, dtypes |-> <<>>, rows |-> <<>>]

NoFile == [schema |-> <<>>, rows |-> <<>>]

\* no artifact on disk. An artifact has its time stamp and its bytes; `by` and
\* `returned` remember who wrote it and the dataset that writer returned
NoArtifact ==
    [exists |-> FALSE, mtime |-> 0, data |-> NoFile, by |-> "none", returned |-> NoDataset]


-----------------------------------------------------------------------------
(* Contents the source files can have *)

\* a datetime cell of the spreadsheet
DateCell(v) == [t |-> "date", n |-> 0, v |-> v]

\* the records sheet of tests/test_data_loader.py (date-columns scheme)
RecordsTest ==
    Table(<<"DPTO_OCURRE", "MUN_OCURRE", "SEXO", "GRUPO_EDAD1", "FECHA_DEF", "CAUSA_DEF">>,
      <<("DPTO_OCURRE" :> IntCell(11)) @@
         ("MUN_OCURRE" :> IntCell(11001)) @@
         ("SEXO" :> TxtCell(<<"M">>)) @@
         ("GRUPO_EDAD1" :> IntCell(5)) @@
         ("FECHA_DEF" :> DateCell(<<"2", "0", "1", "9", "-", "0", "5", "-", "1", "0">>)) @@
         ("CAUSA_DEF" :> TxtCell(<<"x", "9", "5">>))>>)

\* the registry's own shape (year/month scheme): a firearm homicide in 11001, a
\* row of an unknown age group, a row in 05001 whose cause the catalog lacks,
\* and a row whose month is no month
RecordsRegistry ==
    Table(<<"COD_DEPARTAMENTO", "COD_MUNICIPIO", "AÑO", "MES", "SEXO", "GRUPO_EDAD1", "COD_MUERTE">>,
      <<("COD_DEPARTAMENTO" :> IntCell(11)) @@
         ("COD_MUNICIPIO" :> IntCell(1)) @@
         ("AÑO" :> IntCell(2019)) @@
         ("MES" :> IntCell(5)) @@
         ("SEXO" :> IntCell(1)) @@
         ("GRUPO_EDAD1" :> IntCell(5)) @@
         ("COD_MUERTE" :> TxtCell(<<"x", "9", "5">>)),
        ("COD_DEPARTAMENTO" :> IntCell(5)) @@
         ("COD_MUNICIPIO" :> IntCell(1)) @@
         ("AÑO" :> IntCell(2019)) @@
         ("MES" :> IntCell(1)) @@
         ("SEXO" :> IntCell(2)) @@
         ("GRUPO_EDAD1" :> IntCell(13)) @@
         ("COD_MUERTE" :> TxtCell(<<"A", "0", "0", "0">>)),
        ("COD_DEPARTAMENTO" :> IntCell(5)) @@
         ("COD_MUNICIPIO" :> IntCell(1)) @@
         ("AÑO" :> IntCell(2019)) @@
         ("MES" :> IntCell(2)) @@
         ("SEXO" :> IntCell(9)) @@
         ("GRUPO_EDAD1" :> IntCell(12)) @@
         ("COD_MUERTE" :> TxtCell(<<"R", "9", "9">>)),
        ("COD_DEPARTAMENTO" :> IntCell(11)) @@
         ("COD_MUNICIPIO" :> IntCell(1)) @@
         ("AÑO" :> IntCell(2019)) @@
         ("MES" :> IntCell(13)) @@
         ("SEXO" :> IntCell(1)) @@
         ("GRUPO_EDAD1" :> IntCell(5)) @@
         ("COD_MUERTE" :> TxtCell(<<"X", "9", "5">>))>>)

\* year/month scheme, one row breaking four schema rules at once
RecordsBad ==
    Table(<<"COD_DEPARTAMENTO", "COD_MUNICIPIO", "AÑO", "MES", "SEXO", "GRUPO_EDAD1", "COD_MUERTE">>,
      <<("COD_DEPARTAMENTO" :> IntCell(123456)) @@
         ("COD_MUNICIPIO" :> IntCell(1)) @@
         ("AÑO" :> IntCell(2018)) @@
         ("MES" :> IntCell(5)) @@
         ("SEXO" :> IntCell(1)) @@
         ("GRUPO_EDAD1" :> IntCell(5)) @@
         ("COD_MUERTE" :> TxtCell(<<"X", "9">>))>>)

RecordsContent(id) ==
    CASE id = "test" -> RecordsTest
      [] id = "registry" -> RecordsRegistry
      [] OTHER -> RecordsBad

\* the flat catalog of tests/test_data_loader.py
CausesTest ==
    Table(<<"CODIGO", "DESCRIPCION">>,
      <<("CODIGO" :> TxtCell(<<"X", "9", "5">>)) @@
         ("DESCRIPCION" :> TxtCell(<<"A", "g", "r", "e", "s", "i", "o", "n">>))>>)

\* the CIE-10 sheet: paired three and four character codes
CausesWide ==
    Table(<<code3_col, desc3_col, code4_col, desc4_col>>,
      <<(code3_col :> TxtCell(<<"X", "9", "5">>)) @@ (desc3_col :> TxtCell(<<"A", "g", "r", "e", "s", "i", "o", "n">>)) @@
         (code4_col :> TxtCell(<<"X", "9", "5", "0">>)) @@ (desc4_col :> TxtCell(<<"E", "n", " ", "c", "a", "s", "a">>)),
        (code3_col :> NaN) @@ (desc3_col :> NaN) @@
         (code4_col :> NaN) @@ (desc4_col :> NaN),
        (code3_col :> TxtCell(<<"I", "2", "1">>)) @@ (desc3_col :> TxtCell(<<"I", "n", "f", "a", "r", "t", "o">>)) @@
         (code4_col :> NaN) @@ (desc4_col :> NaN)>>)

\* the same sheet as read when its header is not on the first row
CausesUnnamed ==
    Table(<<"Unnamed: 0", "Unnamed: 1">>,
      <<("Unnamed: 0" :> TxtCell(<<"D", "A", "N", "E">>)) @@
         ("Unnamed: 1" :> NaN)>>)

\* a workbook of causes: what header=0 reads and what header=8 reads
CausesContent(id) ==
    CASE id = "test" -> [first |-> CausesTest, reread |-> CausesTest]
      [] id = "wide" -> [first |-> CausesWide, reread |-> CausesUnnamed]
      [] OTHER -> [first |-> CausesUnnamed, reread |-> CausesWide]

\* the geo sheet of tests/test_data_loader.py
DivipolaTest ==
    Table(<<"COD_DEPTO", "NOM_DEPTO", "COD_MPIO", "NOM_MPIO", "LAT", "LON">>,
      <<("COD_DEPTO" :> IntCell(11)) @@
         ("NOM_DEPTO" :> TxtCell(<<"B", "o", "g", "o", "t", "a", " ", "D", ".", "C", ".">>)) @@
         ("COD_MPIO" :> IntCell(11001)) @@
         ("NOM_MPIO" :> TxtCell(<<"B", "o", "g", "o", "t", "a", " ", "D", ".", "C", ".">>)) @@
         ("LAT" :> Coord(47)) @@
         ("LON" :> Coord(-741))>>)

\* the alternate shape: 11001 without coordinates, 05001 with
DivipolaAlt ==
    Table(<<"COD_DEPARTAMENTO", "COD_MUNICIPIO", "DEPARTAMENTO", "MUNICIPIO", "LAT", "LON">>,
      <<("COD_DEPARTAMENTO" :> IntCell(11)) @@
         ("COD_MUNICIPIO" :> IntCell(1)) @@
         ("DEPARTAMENTO" :> TxtCell(<<"B", "O", "G", "O", "T", "A">>)) @@
         ("MUNICIPIO" :> TxtCell(<<"B", "O", "G", "O", "T", "A">>)) @@
         ("LAT" :> NaN) @@
         ("LON" :> NaN),
        ("COD_DEPARTAMENTO" :> IntCell(5)) @@
         ("COD_MUNICIPIO" :> IntCell(1)) @@
         ("DEPARTAMENTO" :> TxtCell(<<"A", "N", "T", "I", "O", "Q", "U", "I", "A">>)) @@
         ("MUNICIPIO" :> TxtCell(<<"M", "E", "D", "E", "L", "L", "I", "N">>)) @@
         ("LAT" :> Coord(62)) @@
         ("LON" :> Coord(-756))>>)

NoTable == Table(<<>>, <<>>)

\* a Divipola workbook: its first sheet and, when it has one, its sheet "Hoja3"
DivipolaContent(id) ==
    CASE id = "test" -> [sheet |-> DivipolaTest, hasHoja3 |-> FALSE, hoja3 |-> NoTable]
      [] OTHER -> [sheet |-> DivipolaAlt, hasHoja3 |-> FALSE, hoja3 |-> NoTable]

\* dane_municipios.csv with the coordinates of 11001 (read with dtype=str)
CatalogCoords ==
    Table(<<"COD_DPTO", "NOM_DPTO", "COD_MPIO", "NOM_MPIO", "LATITUD", "LONGITUD">>,
      <<("COD_DPTO" :> TxtCell(<<"1", "1">>)) @@
         ("NOM_DPTO" :> TxtCell(<<"B", "O", "G", "O", "T", "A">>)) @@
         ("COD_MPIO" :> TxtCell(<<"1", "1", "0", "0", "1">>)) @@
         ("NOM_MPIO" :> TxtCell(<<"B", "O", "G", "O", "T", "A">>)) @@
         ("LATITUD" :> TxtCell(<<"4", ".", "7">>)) @@
         ("LONGITUD" :> TxtCell(<<"-", "7", "4", ".", "1">>))>>)

CatalogContent(id) == IF id = "coords" THEN CatalogCoords ELSE NoTable

Sources == {"records", "causes", "divipola"}

RAW_FILENAMES ==
    [f \in Sources |->
        CASE f = "records" -> "NoFetal2019.xlsx"
          [] f = "causes" -> "CodigosDeMuerte.xlsx"
          [] OTHER -> "Divipola.xlsx"]

ContentIds(f) ==
    CASE f = "records" -> {"test", "registry", "bad"}
      [] f = "causes" -> {"test", "wide", "unnamed"}
      [] OTHER -> {"test", "alt"}


-----------------------------------------------------------------------------
(* load_data *)

NoError == Error("", "")

\* _read_excel's FileNotFoundError for source f
MissingFile(f) == [Error("FileNotFoundError", "_read_excel") EXCEPT !.path = RAW_FILENAMES[f]]

\* MORTALITY_SCHEMA.validate's exception
SchemaError(v, lazy) ==
    [Error(IF lazy THEN "SchemaErrors" ELSE "SchemaError", "MORTALITY_SCHEMA.validate")
     EXCEPT !.failures = v.errors]

\* _latest_modification(raw_paths): the files that do not exist are skipped
_latest_modification(files) == Max({files[f].mtime : f \in {g \in Sources : files[g].exists}})

\* the decision with a strict comparison: an artifact as old as the newest
\* source would count as stale
CacheIsFreshStrict(force_refresh, artifact, files) ==
    /\ ~force_refresh
    /\ artifact.exists
    /\ artifact.mtime > _latest_modification(files)

\* the condition of lines 495-499, evaluated left to right
CacheIsFresh(force_refresh, artifact, files) ==
    /\ ~force_refresh
    /\ artifact.exists
    /\ artifact.mtime >= _latest_modification(files)

\* lazy= of the three calls of MORTALITY_SCHEMA.validate
CacheLoadLazy == FALSE

\* validation that stops at the first failure
PipelineEager == FALSE

PipelineLazy == TRUE

CliLazy == TRUE

\* the names pandas gives to the columns of a header row of empty cells
UnnamedColumns ==
    {"Unnamed: 0", "Unnamed: 1", "Unnamed: 2", "Unnamed: 3", "Unnamed: 4",
     "Unnamed: 5", "Unnamed: 6"}

\* lines 506-509: the cause workbook, read again with header=8 when every
\* column of the first read is "Unnamed: n"
ReadCauses(id) ==
    LET book == CausesContent(id)
    IN  IF \A c \in SeqToSet(book.first.columns) : c \in UnnamedColumns
        THEN book.reread ELSE book.first

PipelineFailure(e, read, input) ==
    [ok |-> FALSE, data |-> NoDataset, input |-> input, error |-> e, read |-> read]

\* line 524 and what follows from its outcome
PipelineValidated(dataset, validated) ==
    IF validated.ok
    THEN [ok |-> TRUE, data |-> validated.data, input |-> dataset,
          error |-> NoError, read |-> Sources]
    ELSE PipelineFailure(SchemaError(validated, PipelineLazy), Sources, dataset)

PipelineValidate(dataset) ==
    PipelineValidated(dataset, SchemaValidate(dataset, PipelineLazy))

\* lines 513-522 on the outcomes of the three readers
PipelineMerge(records, causes, divipola) ==
    IF ~records.ok THEN PipelineFailure(records.error, Sources, NoDataset)
    ELSE IF ~causes.ok THEN PipelineFailure(causes.error, Sources, NoDataset)
    ELSE IF ~divipola.ok THEN PipelineFailure(divipola.error, Sources, NoDataset)
    ELSE IF ~ManyToOne(divipola.rows)
    THEN PipelineFailure(Error("MergeError", "_merge_datasets"), Sources, NoDataset)
    ELSE PipelineValidate(
             FillAndFilter(_merge_datasets(records.rows, causes.rows, divipola.rows)))

\* lines 504-524: read the three workbooks in order, prepare, merge, validate
Pipeline(files, catalog) ==
    IF ~files["records"].exists THEN PipelineFailure(MissingFile("records"), {}, NoDataset)
    ELSE IF ~files["causes"].exists
         THEN PipelineFailure(MissingFile("causes"), {"records"}, NoDataset)
    ELSE IF ~files["divipola"].exists
         THEN PipelineFailure(MissingFile("divipola"), {"records", "causes"}, NoDataset)
    ELSE PipelineMerge(
             _prepare_records(RecordsContent(files["records"].id)),
             _prepare_causes(ReadCauses(files["causes"].id)),
             _prepare_divipola(DivipolaContent(files["divipola"].id),
                 [exists |-> catalog.exists, content |-> CatalogContent(catalog.id)]))

NoCall ==
    [op |-> "none", force |-> FALSE, path |-> "none",
     atStart |-> [cacheExists |-> FALSE, cacheMtime |-> 0, cacheBy |-> "none",
                  exists |-> [f \in Sources |-> FALSE], mtime |-> [f \in Sources |-> 0],
                  csvExists |-> FALSE, csvMtime |-> 0],
     read |-> {}, input |-> NoDataset, wrote |-> FALSE, sawBase |-> FALSE, dirty |-> FALSE]

NoResult == [kind |-> "none", data |-> NoDataset, error |-> NoError]

Ok(data) == [kind |-> "ok", data |-> data, error |-> NoError]

Raised(e) == [kind |-> "error", data |-> NoDataset, error |-> e]

NoBase == [valid |-> FALSE, data |-> NoDataset, mtime |-> 0]

\* what the call sees of the file system when it starts
Snapshot ==
    [cacheExists |-> cache.exists, cacheMtime |-> cache.mtime, cacheBy |-> cache.by,
     exists |-> [f \in Sources |-> src[f].exists],
     mtime |-> [f \in Sources |-> src[f].mtime],
     csvExists |-> csv.exists, csvMtime |-> csv.mtime]

\* a successful call becomes the reference of later calls: when nothing changed
\* under it, and unless a reference a non-forced call is to reproduce exists
NewBase(data, mtime) ==
    IF call.dirty THEN NoBase
    ELSE IF base.valid /\ ~call.force THEN base
    ELSE [valid |-> TRUE, data |-> data, mtime |-> mtime]

\* a failing call ends the reference only when it was to replace it
KeptBase == IF base.valid /\ ~call.force THEN base ELSE NoBase

\* the workbooks of the registry: year and month columns, the wide catalogue of
\* causes, the official sheet of departments and municipalities
RegistryFolder ==
    [f \in Sources |-> CASE f = "records" -> "registry" [] f = "causes" -> "wide"
                            [] OTHER -> "alt"]

\* the data folder at the start: the synthetic one of the tests, or the registry's,
\* with or without the catalogue of coordinates
DataFolders ==
    {[workbooks |-> [f \in Sources |-> "test"], catalog |-> "none"],
     [workbooks |-> RegistryFolder, catalog |-> "none"],
     [workbooks |-> RegistryFolder, catalog |-> "coords"]}

Init ==
    /\ now = 0
    /\ \E folder \in DataFolders :
        /\ src = [f \in Sources |-> [exists |-> TRUE, mtime |-> 0, id |-> folder.workbooks[f]]]
        /\ csv = [exists |-> folder.catalog # "none", mtime |-> 0, id |-> folder.catalog]
    /\ cache = NoArtifact
    /\ pc = "idle"
    /\ call = NoCall
    /\ local = NoDataset
    /\ result = NoResult
    /\ base = NoBase
    /\ envSteps = 0
    /\ proc = NoProcs
    /\ dash = NoDash
    /\ probe = NoProbe

\* load_data(force_refresh), lines 487-499: the cache decision
LoadData(force_refresh) ==
    /\ pc = "idle"
    /\ call' = [NoCall EXCEPT !.op = "load_data", !.force = force_refresh,
                              !.atStart = Snapshot, !.sawBase = base.valid]
    /\ local' = NoDataset
    /\ IF ~force_refresh /\ cache.exists /\ \A f \in Sources : ~src[f].exists
       THEN \* max() of an empty sequence
            /\ pc' = "idle"
            /\ result' = Raised(Error("ValueError", "_latest_modification"))
            /\ base' = base
       ELSE /\ pc' = IF CacheIsFresh(force_refresh, cache, src) THEN "cached" ELSE "stale"
            /\ result' = NoResult
            /\ base' = base
    /\ UNCHANGED <<now, src, csv, cache, envSteps, probe, proc, dash>>

\* what load_data does with the outcome of line 502
CachedDone(v) ==
    /\ call' = [call EXCEPT !.path = "fresh", !.input = read_parquet(cache.data)]
    /\ result' = IF v.ok THEN Ok(v.data) ELSE Raised(SchemaError(v, CacheLoadLazy))
    /\ base' = IF v.ok THEN NewBase(v.data, cache.mtime) ELSE KeptBase

\* a load_data that runs the pipeline when the artifact does not validate
LoadCachedRepairing ==
    /\ pc = "cached"
    /\ IF ~cache.exists
       THEN /\ pc' = "idle"
            /\ result' = Raised(Error("FileNotFoundError", "pd.read_parquet"))
            /\ call' = [call EXCEPT !.path = "fresh"]
            /\ base' = KeptBase
       ELSE IF SchemaValidate(read_parquet(cache.data), CacheLoadLazy).ok
       THEN /\ pc' = "idle"
            /\ CachedDone(SchemaValidate(read_parquet(cache.data), CacheLoadLazy))
       ELSE /\ pc' = "stale"
            /\ UNCHANGED <<call, result, base>>
    /\ UNCHANGED <<now, src, csv, cache, local, envSteps, probe, proc, dash>>

\* lines 500-502: read the artifact, validate it, return it
LoadCached ==
    /\ pc = "cached"
    /\ pc' = "idle"
    /\ IF ~cache.exists
       THEN /\ result' = Raised(Error("FileNotFoundError", "pd.read_parquet"))
            /\ call' = [call EXCEPT !.path = "fresh"]
            /\ base' = KeptBase
       ELSE CachedDone(SchemaValidate(read_parquet(cache.data), CacheLoadLazy))
    /\ UNCHANGED <<now, src, csv, cache, local, envSteps, probe, proc, dash>>

\* a load_data that writes the merged frame whether or not it is valid
PipelineDoneUnvalidated(run) ==
    /\ call' = [call EXCEPT !.path = "pipeline", !.read = run.read, !.input = run.input]
    /\ IF run.ok \/ run.input # NoDataset
       THEN /\ pc' = "persist"
            /\ local' = IF run.ok THEN run.data ELSE run.input
            /\ UNCHANGED <<result, base>>
       ELSE /\ pc' = "idle"
            /\ local' = NoDataset
            /\ result' = Raised(run.error)
            /\ base' = KeptBase

\* what load_data does with the pipeline's outcome
PipelineDone(run) ==
    /\ call' = [call EXCEPT !.path = "pipeline", !.read = run.read, !.input = run.input]
    /\ IF run.ok
       THEN /\ pc' = "persist"
            /\ local' = run.data
            /\ UNCHANGED <<result, base>>
       ELSE /\ pc' = "idle"
            /\ local' = NoDataset
            /\ result' = Raised(run.error)
            /\ base' = KeptBase

\* lines 504-524: the pipeline up to validation
RunPipeline ==
    /\ pc = "stale"
    /\ PipelineDone(Pipeline(src, csv))
    /\ UNCHANGED <<now, src, csv, cache, envSteps, probe, proc, dash>>

\* lines 526-529: write the artifact, return the validated dataset
Persist ==
    /\ pc = "persist"
    /\ pc' = "idle"
    /\ cache' = [exists |-> TRUE, mtime |-> now, data |-> to_parquet(local),
                 by |-> "load_data", returned |-> local]
    /\ call' = [call EXCEPT !.wrote = TRUE]
    /\ result' = Ok(local)
    /\ base' = NewBase(local, now)
    /\ UNCHANGED <<now, src, csv, local, envSteps, probe, proc, dash>>

\* line 46: the exception goes to the caller, success is echoed
CliOutcome(v) == IF v.ok THEN Ok(NoDataset) ELSE Raised(SchemaError(v, CliLazy))

CACHE_FILENAME == "mortalidad_2019.parquet"

\* lines 41-43: the exception click prints before it exits (its message, the
\* quotes around the command left out)
ArtifactNotFound ==
    [Error("ClickException", "validate")
     EXCEPT !.path = CACHE_FILENAME, !.message = "Ejecuta primero mortalidad ingest."]

\* the exit status of a command: click exits with 1 on an exception
ExitStatus(outcome) == IF outcome.kind = "error" THEN 1 ELSE 0

\* a validate that ingests when it finds no artifact
validate_ingesting ==
    /\ pc = "idle"
    /\ call' = [NoCall EXCEPT !.op = "validate", !.atStart = Snapshot,
                              !.input = IF cache.exists THEN read_parquet(cache.data)
                                        ELSE NoDataset,
                              !.read = IF cache.exists THEN {} ELSE Pipeline(src, csv).read,
                              !.wrote = ~cache.exists /\ Pipeline(src, csv).ok]
    /\ result' =
        IF ~cache.exists
        THEN (IF Pipeline(src, csv).ok THEN Ok(NoDataset)
              ELSE Raised(Pipeline(src, csv).error))
        ELSE CliOutcome(SchemaValidate(read_parquet(cache.data), CliLazy))
    /\ cache' =
        IF ~cache.exists /\ Pipeline(src, csv).ok
        THEN [exists |-> TRUE, mtime |-> now, data |-> to_parquet(Pipeline(src, csv).data),
              by |-> "load_data", returned |-> Pipeline(src, csv).data]
        ELSE cache
    /\ UNCHANGED <<now, src, csv, pc, local, base, envSteps, probe, proc, dash>>

\* cli.validate, lines 36-47
validate ==
    /\ pc = "idle"
    /\ call' = [NoCall EXCEPT !.op = "validate", !.atStart = Snapshot,
                              !.input = IF cache.exists THEN read_parquet(cache.data)
                                        ELSE NoDataset]
    /\ result' =
        IF ~cache.exists THEN Raised(ArtifactNotFound)
        ELSE CliOutcome(SchemaValidate(read_parquet(cache.data), CliLazy))
    /\ UNCHANGED <<now, src, csv, cache, pc, local, base, envSteps, probe, proc, dash>>


-----------------------------------------------------------------------------
(* The environment: the clock, and whoever edits the files of the data folder *)

\* the time stamps of the files (what the clock is read for)
Stamps ==
    {src[f].mtime : f \in {g \in Sources : src[g].exists}}
        \cup (IF csv.exists THEN {csv.mtime} ELSE {})
        \cup (IF cache.exists THEN {cache.mtime} ELSE {})

\* time stamps are only compared with each other, so the clock is advanced
\* only past a time some file already carries
Tick ==
    /\ now < MaxTime
    /\ now \in Stamps
    /\ now' = now + 1
    /\ UNCHANGED <<src, csv, cache, pc, call, local, result, base, envSteps, probe, proc, dash>>

\* every change of a file ends the reference and marks the running call
\* (between two calls, what the last call returned is forgotten as well)
Changed ==
    /\ envSteps < MaxEnvSteps
    /\ envSteps' = envSteps + 1
    /\ base' = NoBase
    /\ call' = IF pc = "idle" THEN NoCall ELSE [call EXCEPT !.dirty = TRUE]
    /\ result' = IF pc = "idle" THEN NoResult ELSE result
    /\ UNCHANGED <<now, pc, local, probe, proc, dash>>

WriteSource(f, id) ==
    /\ Changed
    /\ src' = [src EXCEPT ![f] = [exists |-> TRUE, mtime |-> now, id |-> id]]
    /\ UNCHANGED <<csv, cache>>

\* one removal of some of the workbooks
DeleteSources(gone) ==
    /\ gone # {}
    /\ \A f \in gone : src[f].exists
    /\ Changed
    /\ src' = [f \in Sources |->
                IF f \in gone THEN [exists |-> FALSE, mtime |-> 0, id |-> "none"] ELSE src[f]]
    /\ UNCHANGED <<csv, cache>>

WriteCatalog ==
    /\ Changed
    /\ csv' = [exists |-> TRUE, mtime |-> now, id |-> "coords"]
    /\ UNCHANGED <<src, cache>>

DeleteCatalog ==
    /\ csv.exists
    /\ Changed
    /\ csv' = [exists |-> FALSE, mtime |-> 0, id |-> "none"]
    /\ UNCHANGED <<src, cache>>

\* a row that satisfies MORTALITY_SCHEMA
GoodRow ==
    [depto_cod |-> <<"1", "1">>, depto |-> <<"B">>, muni_cod |-> <<"1", "1", "0", "0", "1">>,
     municipio |-> <<"B">>, sexo |-> <<"M">>, grupo_edad |-> 5,
     grupo_edad_label |-> "15 a 19 años", fecha |-> Date(2019, 5, 10), anio |-> 2019,
     mes |-> 5, causa_cod |-> <<"X", "9", "5">>, causa |-> NA, homicidio_x95 |-> 1,
     lat |-> Num(47), lon |-> NumNA]

SchemaDtypes == [c \in SeqToSet(DatasetColumns) |-> SchemaDtype(c)]

\* artifacts this version of load_data did not write: a row breaking three
\* rules (year, age group, cause code), and a valid row with one column more
ForeignArtifacts ==
    {to_parquet([columns |-> DatasetColumns, dtypes |-> SchemaDtypes,
                 rows |-> <<[GoodRow EXCEPT !.anio = 2018, !.grupo_edad = 13,
                                            !.causa_cod = <<"X", "9">>]>>]),
     to_parquet([columns |-> Append(DatasetColumns, "fuente"),
                 dtypes |-> [c \in SeqToSet(DatasetColumns) \cup {"fuente"} |->
                                IF c = "fuente" THEN "object" ELSE SchemaDtype(c)],
                 rows |-> <<[c \in SeqToSet(DatasetColumns) \cup {"fuente"} |->
                                IF c = "fuente" THEN <<"x">> ELSE GoodRow[c]]>>])}

WriteArtifact(file) ==
    /\ Changed
    /\ cache' = [exists |-> TRUE, mtime |-> now, data |-> file,
                 by |-> "other", returned |-> NoDataset]
    /\ UNCHANGED <<src, csv>>

DeleteArtifact ==
    /\ cache.exists
    /\ Changed
    /\ cache' = NoArtifact
    /\ UNCHANGED <<src, csv>>

Next ==
    \/ \E force_refresh \in BOOLEAN : LoadData(force_refresh)
    \/ LoadCached
    \/ RunPipeline
    \/ Persist
    \/ validate
    \/ Tick
    \/ \E f \in Sources : \E id \in ContentIds(f) : WriteSource(f, id)
    \/ \E gone \in SUBSET Sources : DeleteSources(gone)
    \/ WriteCatalog
    \/ DeleteCatalog
    \/ \E file \in ForeignArtifacts : WriteArtifact(file)
    \/ DeleteArtifact

Spec == Init /\ [][Next]_vars


-----------------------------------------------------------------------------
(* _normalize_code as a pure function: every text up to MaxLen characters *)

NormAlphabet == {"0", "1", ".", " ", "A"}

RECURSIVE TextsUpTo(_)
TextsUpTo(n) ==
    IF n = 0 THEN {<<>>}
    ELSE LET shorter == TextsUpTo(n - 1)
         IN  shorter \cup {Append(s, ch) : s \in shorter, ch \in NormAlphabet}

NormInputs == TextsUpTo(MaxLen) \cup {NA}

\* the two widths load_data's readers pass (depto_cod, muni_cod)
NormWidths == {2, 5}

\* the function is probed while the rest of the state is at rest
NormInit ==
    /\ probe \in {[fn |-> "_normalize_code", value |-> s, width |-> w,
                   done |-> FALSE, out |-> <<>>] : s \in NormInputs, w \in NormWidths}
    /\ now = 0
    /\ src = [f \in Sources |-> [exists |-> TRUE, mtime |-> 0, id |-> "test"]]
    /\ csv = [exists |-> FALSE, mtime |-> 0, id |-> "none"]
    /\ cache = NoArtifact
    /\ pc = "idle"
    /\ call = NoCall
    /\ local = NoDataset
    /\ result = NoResult
    /\ base = NoBase
    /\ envSteps = 0
    /\ proc = NoProcs
    /\ dash = NoDash

NormalizeCodeStep ==
    /\ probe.fn = "_normalize_code"
    /\ ~probe.done
    /\ probe' = [probe EXCEPT !.done = TRUE,
                              !.out = _normalize_code(probe.value, probe.width)]
    /\ UNCHANGED mainVars

SpecNorm == NormInit /\ [][NormalizeCodeStep]_vars


-----------------------------------------------------------------------------
(* _normalize_sex as a pure function: the entries of its table in every
   case and padding, other texts, numbers, the empty cell and None *)

SexWords ==
    {<<"M", "A", "S", "C", "U", "L", "I", "N", "O">>,
     <<"H", "O", "M", "B", "R", "E">>,
     <<"1">>,
     <<"M">>,
     <<"F", "E", "M", "E", "N", "I", "N", "O">>,
     <<"M", "U", "J", "E", "R">>,
     <<"2">>,
     <<"F">>,
     <<"3">>,
     <<"9">>,
     <<"0">>,
     <<"S", "I", "N", " ", "I", "N", "F", "O", "R", "M", "A", "C", "I", "O", "N">>,
     <<"S", "I", "N", " ", "I", "N", "F", "O", "R", "M", "A", "C", "I", "Ó", "N">>,
     <<"N", "R">>}

OtherWords ==
    {<<"O", "T", "R", "O">>, <<"X">>, <<>>, <<"1", ".", "0">>, <<"M", "F">>, <<"N", " ", "R">>}

Padded(w) == {w, <<" ">> \o w, w \o <<" ">>, <<" ">> \o w \o <<" ">>}

Cased(w) == {w, Lower(w), Title(w)}

SexInputs ==
    {TxtCell(p) : p \in UNION {Padded(c) : c \in UNION {Cased(w) : w \in SexWords \cup OtherWords}}}
        \cup {IntCell(n) : n \in 0..9} \cup {FltCell(1), FltCell(2), NaN, None}

SexInit ==
    /\ probe \in {[fn |-> "_normalize_sex", value |-> c, width |-> 0,
                   done |-> FALSE, out |-> <<>>] : c \in SexInputs}
    /\ now = 0
    /\ src = [f \in Sources |-> [exists |-> TRUE, mtime |-> 0, id |-> "test"]]
    /\ csv = [exists |-> FALSE, mtime |-> 0, id |-> "none"]
    /\ cache = NoArtifact
    /\ pc = "idle"
    /\ call = NoCall
    /\ local = NoDataset
    /\ result = NoResult
    /\ base = NoBase
    /\ envSteps = 0
    /\ proc = NoProcs
    /\ dash = NoDash

NormalizeSexStep ==
    /\ probe.fn = "_normalize_sex"
    /\ ~probe.done
    /\ probe' = [probe EXCEPT !.done = TRUE, !.out = _normalize_sex(probe.value)]
    /\ UNCHANGED mainVars

SpecSex == SexInit /\ [][NormalizeSexStep]_vars


-----------------------------------------------------------------------------
(* The properties of load_data and of _normalize_code *)

\* a call of load_data is over: it returned or it raised, and no file has
\* changed since
Returned == pc = "idle" /\ call.op = "load_data" /\ result.kind # "none"

\* the data folder holds the three synthetic workbooks of the tests
TestFolder == \A f \in Sources : src[f].exists /\ src[f].id = "test"

\* the row the end-to-end scenario expects
ExpectedRow(row) ==
    /\ row.depto_cod = <<"1", "1">>
    /\ row.muni_cod = <<"1", "1", "0", "0", "1">>
    /\ row.sexo = <<"M">>
    /\ row.grupo_edad = 5
    /\ row.anio = 2019
    /\ row.mes = 5
    /\ row.causa_cod = <<"X", "9", "5">>
    /\ row.homicidio_x95 = 1
    /\ row.lat = Num(47)
    /\ row.lon = Num(-741)

\* C1: End-to-end. With the records file of one row (DPTO_OCURRE=11,
\* MUN_OCURRE=11001, SEXO=M, GRUPO_EDAD1=5, FECHA_DEF=2019-05-10, CAUSA_DEF=x95),
\* the flat cause catalog (CODIGO, DESCRIPCION) and the geo catalog (COD_DEPTO,
\* NOM_DEPTO, COD_MPIO, NOM_MPIO, LAT, LON), load_data(force_refresh=True)
\* succeeds and returns exactly one row: depto_cod "11", muni_cod "11001",
\* sexo "M", grupo_edad 5, anio 2019, mes 5, causa_cod "X95", homicidio_x95 1,
\* lat and lon those of the geo catalog.
C1_EndToEnd ==
    (Returned /\ call.force /\ ~call.dirty /\ TestFolder)
        => /\ result.kind = "ok"
           /\ Len(result.data.rows) = 1
           /\ ExpectedRow(result.data.rows[1])

\* C2: Idempotence. After a successful load_data run, every further
\* load_data(force_refresh=False) made while no file of the data folder has
\* changed returns a dataset identical to the first one and does not write the
\* artifact: its modification time is the one the first run left.
C2_Idempotent ==
    (Returned /\ ~call.force /\ call.sawBase /\ base.valid)
        => /\ result.kind = "ok"
           /\ result.data = base.data
           /\ ~call.wrote
           /\ cache.exists
           /\ cache.mtime = base.mtime

\* a second, non-forced call has answered from the artifact of the first
C2_Reused ==
    /\ Returned /\ ~call.force /\ call.sawBase /\ base.valid
    /\ call.path = "fresh"
    /\ result.kind = "ok"
    /\ Len(result.data.rows) >= 2

\* some input file carried, when the call started, a time stamp later than the
\* one of the artifact
ModifiedSince(a) ==
    \/ \E f \in Sources : a.exists[f] /\ a.mtime[f] > a.cacheMtime
    \/ a.csvExists /\ a.csvMtime > a.cacheMtime

\* C3: Cache invalidation. After a successful run, once any one of the input
\* files (the records, cause or geo workbook, or dane_municipios.csv) has been
\* modified, the next load_data(force_refresh=False) runs the full pipeline
\* again and, when the pipeline succeeds, writes the artifact again.
C3_Invalidation ==
    (/\ Returned /\ ~call.force /\ ~call.dirty
     /\ call.atStart.cacheExists /\ call.atStart.cacheBy = "load_data"
     /\ ModifiedSince(call.atStart))
        => /\ call.path = "pipeline"
           /\ result.kind = "ok" => call.wrote

\* the condition of the FRESH path on what the call saw when it started
FreshAtStart(force_refresh, a) ==
    /\ ~force_refresh
    /\ a.cacheExists
    /\ \A f \in Sources : a.exists[f] => a.cacheMtime >= a.mtime[f]

\* C4: Cache decision. load_data takes the FRESH path (read the artifact,
\* validate, return; no workbook read, nothing written) exactly when
\* force_refresh is false, the artifact exists and its modification time is >=
\* the modification time of every raw source file; in every other case it runs
\* the full pipeline and, before it returns, has written a new artifact.
C4_CacheDecision ==
    Returned =>
        IF FreshAtStart(call.force, call.atStart)
        THEN call.path = "fresh" /\ ~call.wrote /\ call.read = {}
        ELSE /\ call.path = "pipeline"
             /\ result.kind = "ok" =>
                    /\ call.wrote
                    /\ cache.exists
                    /\ cache.data = to_parquet(result.data)

\* every rule the dataset breaks is named by the error
NamesEveryFailure(ds, e) ==
    /\ e.type = "SchemaErrors"
    /\ \A c \in SeqToSet(DatasetColumns) :
        ColumnFailure(ds, c) = "" \/ <<c, ColumnFailure(ds, c)>> \in e.failures

\* validation has refused the dataset handed to it
Refused == pc = "idle" /\ result.kind = "error"
               /\ result.error.where = "MORTALITY_SCHEMA.validate"

\* C5: Validation aggregation. When the dataset handed to schema validation on
\* the pipeline path of load_data, or by the CLI's validate command, breaks
\* several column rules at once, the one error raised names every column and
\* rule that is broken, not only the first.
C5_Aggregated ==
    (Refused /\ (call.op = "validate" \/ call.path = "pipeline"))
        => NamesEveryFailure(call.input, result.error)

\* the pipeline has refused a dataset that breaks three rules or more
C5_SeveralNamed ==
    /\ Refused
    /\ call.op = "load_data" /\ call.path = "pipeline"
    /\ Cardinality(SchemaFailures(call.input)) >= 3
    /\ Cardinality(result.error.failures) >= 3

\* C6: Validation on cache load. When load_data takes the FRESH path and the
\* stored artifact breaks several schema rules, the failure names all of them,
\* as the failure after a pipeline run does.
C6_CacheLoadAggregated ==
    (Refused /\ call.op = "load_data" /\ call.path = "fresh")
        => NamesEveryFailure(call.input, result.error)

\* C7: Missing source file. Whenever one of the three required workbooks is
\* absent, load_data fails with a missing-file error naming an absent path,
\* and no workbook has been read by then; whether an artifact exists, and
\* which of the three is absent, makes no difference.
C7_MissingFile ==
    (Returned /\ ~call.dirty /\ \E f \in Sources : ~call.atStart.exists[f])
        => /\ result.kind = "error"
           /\ result.error.type = "FileNotFoundError"
           /\ \E f \in Sources : ~call.atStart.exists[f] /\ result.error.path = RAW_FILENAMES[f]
           /\ call.read = {}

C9_FifteenColumns ==
    (Returned /\ result.kind = "ok") => result.data.columns = DatasetColumns

\* C10: For every width w and every value (empty, missing, longer than w, with
\* characters that are not digits), _normalize_code returns a text of exactly
\* w characters; the empty and the missing value give w zeros.
C10_ExactWidth ==
    (probe.fn = "_normalize_code" /\ probe.done)
        => /\ ~IsNA(probe.out)
           /\ Len(probe.out) = probe.width
           /\ probe.value \in {<<>>, NA} => probe.out = Zeros(probe.width)


-----------------------------------------------------------------------------
(* _prepare_causes as a pure function: every one-row sheet of the wide layout
   over a few codes and descriptions, filled, blank and empty *)

Code3Cells == {TxtCell(<<"X", "9", "5">>), TxtCell(<<"x", "9", "5">>), NaN}

Desc3Cells == {TxtCell(<<"A", "g", "r", "e", "s", "i", "o", "n">>), TxtCell(<<>>), TxtCell(<<" ">>), NaN}

Code4Cells == {TxtCell(<<"X", "9", "5", "0">>), TxtCell(<<" ", "x", "9", "5", "1", " ">>), TxtCell(<<"X", "9", "5">>), NaN}

Desc4Cells == {TxtCell(<<"E", "n", " ", "c", "a", "s", "a">>), TxtCell(<<>>), TxtCell(<<" ">>), NaN}

WideSheets ==
    {Table(<<code3_col, desc3_col, code4_col, desc4_col>>,
           <<(code3_col :> c3) @@ (desc3_col :> d3) @@ (code4_col :> c4) @@ (desc4_col :> d4)>>) :
        c3 \in Code3Cells, d3 \in Desc3Cells, c4 \in Code4Cells, d4 \in Desc4Cells}

CausesInit ==
    /\ probe \in {[fn |-> "_prepare_causes", value |-> t, width |-> 0,
                   done |-> FALSE, out |-> <<>>] : t \in WideSheets}
    /\ now = 0
    /\ src = [f \in Sources |-> [exists |-> TRUE, mtime |-> 0, id |-> "test"]]
    /\ csv = [exists |-> FALSE, mtime |-> 0, id |-> "none"]
    /\ cache = NoArtifact
    /\ pc = "idle"
    /\ call = NoCall
    /\ local = NoDataset
    /\ result = NoResult
    /\ base = NoBase
    /\ envSteps = 0
    /\ proc = NoProcs
    /\ dash = NoDash

PrepareCausesStep ==
    /\ probe.fn = "_prepare_causes"
    /\ ~probe.done
    /\ probe' = [probe EXCEPT !.done = TRUE, !.out = _prepare_causes(probe.value)]
    /\ UNCHANGED mainVars

SpecCauses == CausesInit /\ [][PrepareCausesStep]_vars


-----------------------------------------------------------------------------
(* _prepare_divipola as a pure function: one municipality (11001) in the
   primary sheet, in the sheet "Hoja3" and in dane_municipios.csv, each value
   present or missing, each optional source absent, whole or unreadable *)

\* the primary sheet: the alternate layout, the canonical layout with text
\* codes, the canonical layout with numeric codes
PrimarySheet(layout, depto, lat, lon) ==
    IF layout = "alt"
    THEN Table(<<"COD_DEPARTAMENTO", "COD_MUNICIPIO", "DEPARTAMENTO", "MUNICIPIO", "LAT", "LON">>,
               <<("COD_DEPARTAMENTO" :> IntCell(11)) @@ ("COD_MUNICIPIO" :> IntCell(1)) @@
                 ("DEPARTAMENTO" :> depto) @@ ("MUNICIPIO" :> TxtCell(<<"A">>)) @@
                 ("LAT" :> lat) @@ ("LON" :> lon)>>)
    ELSE Table(<<"depto_cod", "depto", "muni_cod", "municipio", "lat", "lon">>,
               <<("depto_cod" :> IF layout = "std" THEN TxtCell(<<"1", "1">>) ELSE IntCell(11)) @@
                 ("muni_cod" :> IF layout = "std" THEN TxtCell(<<"1", "1", "0", "0", "1">>) ELSE IntCell(11001)) @@
                 ("depto" :> depto) @@ ("municipio" :> TxtCell(<<"A">>)) @@
                 ("lat" :> lat) @@ ("lon" :> lon)>>)

PrimarySheets ==
    {PrimarySheet(layout, depto, lat, lon) :
        layout \in {"alt", "std", "stdnum"}, depto \in {TxtCell(<<"A">>), NaN},
        lat \in {Coord(47), NaN}, lon \in {Coord(-741), NaN}}

\* the sheet "Hoja3": a second header row, then 11001 with decimal commas
Hoja3Sheet(lat, lon) ==
    Table(<<"Departamento", "Unnamed: 1", "Municipio", "Unnamed: 3", "Localización", "Unnamed: 6">>,
          <<("Departamento" :> TxtCell(<<"C">>)) @@ ("Unnamed: 1" :> TxtCell(<<"N">>)) @@
            ("Municipio" :> TxtCell(<<"C">>)) @@ ("Unnamed: 3" :> TxtCell(<<"N">>)) @@
            ("Localización" :> TxtCell(<<"L">>)) @@ ("Unnamed: 6" :> TxtCell(<<"L">>)),
            ("Departamento" :> IntCell(11)) @@ ("Unnamed: 1" :> TxtCell(<<"B">>)) @@
            ("Municipio" :> IntCell(11001)) @@ ("Unnamed: 3" :> TxtCell(<<"B">>)) @@
            ("Localización" :> lon) @@ ("Unnamed: 6" :> lat)>>)

\* the same sheet without its last column: geo["lat"] raises KeyError
Hoja3Broken ==
    Table(<<"Departamento", "Unnamed: 1", "Municipio", "Unnamed: 3", "Localización">>,
          <<("Departamento" :> IntCell(11)) @@ ("Unnamed: 1" :> TxtCell(<<"B">>)) @@
            ("Municipio" :> IntCell(11001)) @@ ("Unnamed: 3" :> TxtCell(<<"B">>)) @@
            ("Localización" :> TxtCell(<<"-", "7", "4", ",", "2">>)),
            ("Departamento" :> IntCell(11)) @@ ("Unnamed: 1" :> TxtCell(<<"B">>)) @@
            ("Municipio" :> IntCell(11001)) @@ ("Unnamed: 3" :> TxtCell(<<"B">>)) @@
            ("Localización" :> TxtCell(<<"-", "7", "4", ",", "2">>))>>)

Hoja3Sheets ==
    {[hasHoja3 |-> FALSE, hoja3 |-> NoTable],
     [hasHoja3 |-> TRUE, hoja3 |-> Hoja3Sheet(TxtCell(<<"5", ",", "0">>), TxtCell(<<"-", "7", "4", ",", "2">>))],
     [hasHoja3 |-> TRUE, hoja3 |-> Hoja3Sheet(NaN, NaN)],
     [hasHoja3 |-> TRUE, hoja3 |-> Hoja3Broken]}

\* dane_municipios.csv, read with dtype=str
CatalogFile(lat, lon) ==
    Table(<<"COD_DPTO", "NOM_DPTO", "COD_MPIO", "NOM_MPIO", "LATITUD", "LONGITUD">>,
          <<("COD_DPTO" :> TxtCell(<<"1", "1">>)) @@ ("NOM_DPTO" :> TxtCell(<<"C">>)) @@
            ("COD_MPIO" :> TxtCell(<<"1", "1", "0", "0", "1">>)) @@ ("NOM_MPIO" :> TxtCell(<<"C">>)) @@
            ("LATITUD" :> lat) @@ ("LONGITUD" :> lon)>>)

\* the same file without the column LATITUD: coords["lat"] raises KeyError
CatalogBroken ==
    Table(<<"COD_DPTO", "NOM_DPTO", "COD_MPIO", "NOM_MPIO", "LONGITUD">>,
          <<("COD_DPTO" :> TxtCell(<<"1", "1">>)) @@ ("NOM_DPTO" :> TxtCell(<<"C">>)) @@
            ("COD_MPIO" :> TxtCell(<<"1", "1", "0", "0", "1">>)) @@ ("NOM_MPIO" :> TxtCell(<<"C">>)) @@
            ("LONGITUD" :> TxtCell(<<"-", "7", "4", ".", "3">>))>>)

CatalogFiles ==
    {[exists |-> FALSE, content |-> NoTable],
     [exists |-> TRUE, content |-> CatalogFile(TxtCell(<<"6", ".", "0">>), TxtCell(<<"-", "7", "4", ".", "3">>))],
     [exists |-> TRUE, content |-> CatalogFile(NaN, NaN)],
     [exists |-> TRUE, content |-> CatalogBroken]}

GeoInputs ==
    {[book |-> [sheet |-> sheet, hasHoja3 |-> h.hasHoja3, hoja3 |-> h.hoja3], catalog |-> c] :
        sheet \in PrimarySheets, h \in Hoja3Sheets, c \in CatalogFiles}

GeoInit ==
    /\ probe \in {[fn |-> "_prepare_divipola", value |-> v, width |-> 0,
                   done |-> FALSE, out |-> <<>>] : v \in GeoInputs}
    /\ now = 0
    /\ src = [f \in Sources |-> [exists |-> TRUE, mtime |-> 0, id |-> "test"]]
    /\ csv = [exists |-> FALSE, mtime |-> 0, id |-> "none"]
    /\ cache = NoArtifact
    /\ pc = "idle"
    /\ call = NoCall
    /\ local = NoDataset
    /\ result = NoResult
    /\ base = NoBase
    /\ envSteps = 0
    /\ proc = NoProcs
    /\ dash = NoDash

\* the table `renamed` at line 353, at line 390 and at line 434, and what
\* _prepare_divipola returns
GeoStages(book, catalog, primary) ==
    [p0 |-> primary,
     p1 |-> EnrichFromSheet(primary, book),
     p2 |-> EnrichFromCatalog(EnrichFromSheet(primary, book), catalog),
     final |-> _prepare_divipola(book, catalog).rows,
     ok |-> _prepare_divipola(book, catalog).ok]

PrepareDivipolaStep ==
    /\ probe.fn = "_prepare_divipola"
    /\ ~probe.done
    /\ probe' = [probe EXCEPT !.done = TRUE,
                              !.out = GeoStages(probe.value.book, probe.value.catalog,
                                                PrimaryGeo(probe.value.book.sheet).rows)]
    /\ UNCHANGED mainVars

SpecGeo == GeoInit /\ [][PrepareDivipolaStep]_vars

\* the text the table is looked up with: trimmed, case folded
SexKey(c) == Upper(Strip(c.v))

\* C11: _normalize_sex is total. For every input it returns one of M, F, NR;
\* every entry of the synonym table gives its listed value, whatever its case
\* and the blanks around it (MASCULINO, HOMBRE, 1, M give M; FEMENINO, MUJER,
\* 2, F give F; 3, 9, 0, SIN INFORMACION, NR give NR); None and every input
\* the table does not list give NR.
C11_SexTotal ==
    (probe.fn = "_normalize_sex" /\ probe.done)
        => /\ probe.out \in {<<"M">>, <<"F">>, <<"N", "R">>}
           /\ probe.value.t \in {"none", "nan", "float"} => probe.out = <<"N", "R">>
           /\ probe.value.t \in {"str", "int"} =>
                probe.out =
                    IF SexKey(probe.value) \in {<<"M", "A", "S", "C", "U", "L", "I", "N", "O">>, <<"H", "O", "M", "B", "R", "E">>, <<"1">>, <<"M">>}
                    THEN <<"M">>
                    ELSE IF SexKey(probe.value) \in {<<"F", "E", "M", "E", "N", "I", "N", "O">>, <<"M", "U", "J", "E", "R">>, <<"2">>, <<"F">>}
                    THEN <<"F">>
                    ELSE <<"N", "R">>

\* a listed word in lower case between blanks has been mapped
C11_TrimmedAndFolded ==
    /\ probe.fn = "_normalize_sex" /\ probe.done
    /\ probe.value = TxtCell(<<" ", "m", "u", "j", "e", "r", " ">>)
    /\ probe.out = <<"F">>

\* a cell that holds a code: not empty, not blank
HoldsCode(c) == c.t = "str" /\ Strip(c.v) # <<>>

\* a blank description: an empty cell, or a text of blanks only
BlankCell(c) == c.t = "nan" \/ (c.t = "str" /\ Strip(c.v) = <<>>)

\* the catalog entry of a code
EntryOf(rows, code) == CHOOSE i \in 1..Len(rows) : rows[i].causa_cod = code

\* the two entries of a row with two codes; the second has the description of
\* the first when the row has none for it
TwoEntries(row, rows) ==
    /\ Len(rows) = 2
    /\ rows[1].causa_cod = Upper(Strip(row[code3_col].v))
    /\ rows[2].causa_cod = Upper(Strip(row[code4_col].v))
    /\ BlankCell(row[desc4_col]) => rows[2].causa = rows[1].causa

\* C12: Cause catalog expansion. A row of the wide sheet with a 3-character
\* code and a different 4-character code gives two catalog entries, and
\* whenever the row's 4-character description is blank (an empty cell, an
\* empty text, a text of blanks) the entry of the 4-character code has the
\* row's 3-character description.
C12_Expansion ==
    (/\ probe.fn = "_prepare_causes" /\ probe.done
     /\ HoldsCode(probe.value.rows[1][code3_col])
     /\ HoldsCode(probe.value.rows[1][code4_col])
     /\ Upper(Strip(probe.value.rows[1][code3_col].v))
            # Upper(Strip(probe.value.rows[1][code4_col].v)))
        => probe.out.ok /\ TwoEntries(probe.value.rows[1], probe.out.rows)

\* _prepare_divipola has been probed
GeoProbed == probe.fn = "_prepare_divipola" /\ probe.done

EnrichedColumns == {"depto", "municipio", "lat", "lon"}

\* the later table has the value of the earlier one wherever that has one
KeepsValues(earlier, later) ==
    /\ Len(later) = Len(earlier)
    /\ \A i \in 1..Len(earlier) : \A c \in EnrichedColumns :
            earlier[i][c].t # "nan" => later[i][c] = earlier[i][c]

\* C13: Fill-only enrichment. For every key and each of depto, municipio,
\* lat, lon, a value the primary catalog holds is not changed by pass 1 (the
\* sheet Hoja3) nor by pass 2 (dane_municipios.csv), and a value pass 1 filled
\* is not changed by pass 2: a pass writes only where the value is null.
C13_FillOnly ==
    GeoProbed => /\ KeepsValues(probe.out.p0, probe.out.p1)
                 /\ KeepsValues(probe.out.p1, probe.out.p2)
                 /\ KeepsValues(probe.out.p0, probe.out.p2)

\* the primary name stood against two other names, and the latitude pass 1
\* filled stood against the one of the file
C13_Stood ==
    /\ GeoProbed
    /\ probe.value.catalog = [exists |-> TRUE,
                              content |-> CatalogFile(TxtCell(<<"6", ".", "0">>),
                                                      TxtCell(<<"-", "7", "4", ".", "3">>))]
    /\ probe.out.p0[1].depto = TxtCell(<<"A">>)
    /\ probe.out.p0[1].lat = NaN
    /\ probe.out.p1[1].lat = Coord(50)
    /\ probe.out.p2[1].lat = Coord(50)
    /\ probe.out.p2[1].depto = TxtCell(<<"A">>)

\* the sheet Hoja3 and the file with coordinates for 11001: 5.0, -74.2 and
\* 6.0, -74.3
SheetWithCoords ==
    Hoja3Sheet(TxtCell(<<"5", ",", "0">>), TxtCell(<<"-", "7", "4", ",", "2">>))

FileWithCoords ==
    [exists |-> TRUE,
     content |-> CatalogFile(TxtCell(<<"6", ".", "0">>), TxtCell(<<"-", "7", "4", ".", "3">>))]

\* the primary catalog has the key as text and no latitude for it
NoPrimaryLat ==
    /\ GeoProbed
    /\ probe.out.p0[1].lat = NaN
    /\ KeyKind(probe.out.p0, "depto_cod") = "str"
    /\ KeyKind(probe.out.p0, "muni_cod") = "str"

\* the sheet Hoja3 holds a latitude for the key
SheetHasLat == probe.value.book.hasHoja3 /\ probe.value.book.hoja3 = SheetWithCoords

NumericKeys(primary) ==
    KeyKind(primary, "depto_cod") # "str" \/ KeyKind(primary, "muni_cod") # "str"

\* pass 1 meets an exception: the sheet lacks a column, or the merge raises
Pass1Fails(book, primary) ==
    book.hasHoja3 /\ (book.hoja3 = Hoja3Broken \/ NumericKeys(primary))

\* pass 2 meets an exception: the file lacks a column, or the merge raises
Pass2Fails(catalog, primary) ==
    catalog.exists /\ (catalog.content = CatalogBroken \/ NumericKeys(primary))

\* the workbook without its sheet Hoja3, and no file
WithoutHoja3(book) == [book EXCEPT !.hasHoja3 = FALSE, !.hoja3 = NoTable]

NoCatalog == [exists |-> FALSE, content |-> NoTable]

\* C15: Enrichment is best-effort. A failure while reading or merging the
\* sheet Hoja3 (pass 1) or the external file (pass 2) does not abort
\* _prepare_divipola; the pass is skipped as a whole: the table it leaves is
\* the one it found, and the geo table returned is the one returned when
\* that optional source does not exist.
C15_BestEffort ==
    GeoProbed =>
        /\ probe.out.ok
        /\ Pass1Fails(probe.value.book, probe.out.p0) =>
                /\ probe.out.p1 = probe.out.p0
                /\ probe.out.final
                       = _prepare_divipola(WithoutHoja3(probe.value.book),
                                           probe.value.catalog).rows
        /\ Pass2Fails(probe.value.catalog, probe.out.p0) =>
                /\ probe.out.p2 = probe.out.p1
                /\ probe.out.final = _prepare_divipola(probe.value.book, NoCatalog).rows

\* a file without its latitude column met a table with no coordinates, after
\* a sheet without one of its columns: the table came out as it went in
C15_BothSkipped ==
    /\ GeoProbed
    /\ probe.value.book.hasHoja3 /\ probe.value.book.hoja3 = Hoja3Broken
    /\ probe.value.catalog.exists /\ probe.value.catalog.content = CatalogBroken
    /\ ~NumericKeys(probe.out.p0)
    /\ probe.out.p0[1].lon = NaN
    /\ probe.out.p2 = probe.out.p0
    /\ probe.out.final[1].lon.isna


-----------------------------------------------------------------------------
(* load_data called by several processes at once on one data folder. The    *)
(* artifact is one file written in place: to_parquet truncates it, then      *)
(* writes it; read_parquet reads its footer, then its column chunks.         *)

Procs == {"p1", "p2", "p3"}

\* a process that has not called load_data
NotStarted ==
    [pc |-> "idle", force |-> FALSE, atStart |-> NoArtifact, footer |-> <<>>,
     cut |-> 0, seen |-> {}, head |-> <<>>, local |-> NoDataset, result |-> NoResult]

\* a file whose footer is written
Complete(file) == file.schema # <<>>

\* what the footer says of the file: its columns and its number of rows
Layout(file) == [schema |-> file.schema, n |-> Len(file.rows)]

\* the artifact an earlier run left: of the same folder, of the folder before
\* the catalogue of coordinates was added, or one of another origin
EarlierArtifacts(files, catalog) ==
    {to_parquet(run.data) :
        run \in {r \in {Pipeline(files, catalog),
                        Pipeline(files, [exists |-> FALSE, mtime |-> 0, id |-> "none"])} :
                    r.ok}}
        \cup ForeignArtifacts

ConcInit ==
    /\ now = 0
    /\ \E folder \in DataFolders :
        /\ src = [f \in Sources |-> [exists |-> TRUE, mtime |-> 0, id |-> folder.workbooks[f]]]
        /\ csv = [exists |-> folder.catalog # "none", mtime |-> 0, id |-> folder.catalog]
    /\ \E file \in EarlierArtifacts(src, csv) :
        cache = [exists |-> TRUE, mtime |-> 0, data |-> file, by |-> "other",
                 returned |-> NoDataset]
    /\ pc = "idle"
    /\ call = NoCall
    /\ local = NoDataset
    /\ result = NoResult
    /\ base = NoBase
    /\ envSteps = 0
    /\ probe = NoProbe
    /\ proc = [p \in Procs |-> NotStarted]
    /\ dash = NoDash

ConcRest == <<now, src, csv, pc, call, local, result, base, envSteps, probe, dash>>

\* lines 487-499: the cache decision of process p
StartCall(p, force_refresh) ==
    /\ proc[p].pc = "idle"
    /\ proc' = [proc EXCEPT ![p] =
                  [NotStarted EXCEPT
                     !.pc = IF CacheIsFresh(force_refresh, cache, src)
                            THEN "footer" ELSE "stale",
                     !.force = force_refresh,
                     !.atStart = cache]]
    /\ UNCHANGED cache
    /\ UNCHANGED ConcRest

\* the call of p is over
Finished(p, outcome) == [proc[p] EXCEPT !.pc = "done", !.result = outcome]

ArrowInvalid == Raised(Error("ArrowInvalid", "pd.read_parquet"))

\* line 501, first read: the footer; a file being written has none
ReadFooter(p) ==
    /\ proc[p].pc = "footer"
    /\ proc' = [proc EXCEPT ![p] =
                  IF ~Complete(cache.data) THEN Finished(p, ArrowInvalid)
                  ELSE [proc[p] EXCEPT !.pc = "head", !.footer = Layout(cache.data),
                                       !.seen = {cache.data}]]
    /\ UNCHANGED cache
    /\ UNCHANGED ConcRest

\* the places the reading of the column chunks is interrupted at: after the
\* first column, before the last one
ColumnCuts(n) == {1, n - 1}

\* the bytes at the offsets of the footer are column chunks only when the
\* file on disk has the layout the footer described
Readable(p) == Complete(cache.data) /\ Layout(cache.data) = proc[p].footer

\* line 501, the first column chunks
ReadHead(p, cut) ==
    /\ proc[p].pc = "head"
    /\ cut \in ColumnCuts(Len(proc[p].footer.schema))
    /\ proc' = [proc EXCEPT ![p] =
                  IF ~Readable(p) THEN Finished(p, ArrowInvalid)
                  ELSE [proc[p] EXCEPT !.pc = "tail", !.cut = cut,
                                       !.seen = @ \cup {cache.data},
                                       !.head = cache.data.rows]]
    /\ UNCHANGED cache
    /\ UNCHANGED ConcRest

\* the file a reader put together: the first columns as read then, the other
\* columns as read now
Assembled(footer, cut, head, tail) ==
    [schema |-> footer.schema,
     rows |-> [i \in 1..footer.n |->
                [c \in {footer.schema[k].name : k \in 1..Len(footer.schema)} |->
                    IF \E k \in 1..cut : footer.schema[k].name = c
                    THEN head[i][c] ELSE tail[i][c]]]]

\* line 502 on what was read
CacheOutcome(v) == IF v.ok THEN Ok(v.data) ELSE Raised(SchemaError(v, CacheLoadLazy))

\* line 501, the other column chunks, and line 502. Chunks of a file written
\* in between decode, or do not: the offsets of the footer are those of
\* another file
ReadTail(p, decodes) ==
    /\ proc[p].pc = "tail"
    /\ decodes \/ proc[p].seen # {cache.data}
    /\ proc' = [proc EXCEPT ![p] =
                  IF ~Readable(p) \/ ~decodes THEN Finished(p, ArrowInvalid)
                  ELSE [Finished(p, CacheOutcome(SchemaValidate(
                            read_parquet(Assembled(proc[p].footer, proc[p].cut,
                                                   proc[p].head, cache.data.rows)),
                            CacheLoadLazy)))
                        EXCEPT !.seen = @ \cup {cache.data}]]
    /\ UNCHANGED cache
    /\ UNCHANGED ConcRest

\* lines 504-524 in process p
RunPipelineOf(p, run) ==
    /\ proc[p].pc = "stale"
    /\ proc' = [proc EXCEPT ![p] =
                  IF run.ok THEN [proc[p] EXCEPT !.pc = "persist", !.local = run.data]
                  ELSE Finished(p, Raised(run.error))]
    /\ UNCHANGED cache
    /\ UNCHANGED ConcRest

\* line 527, open(cache_path, "wb"): the file is emptied in place
Truncate(p) ==
    /\ proc[p].pc = "persist"
    /\ proc' = [proc EXCEPT ![p].pc = "writing"]
    /\ cache' = [exists |-> TRUE, mtime |-> now, data |-> NoFile, by |-> "load_data",
                 returned |-> NoDataset]
    /\ UNCHANGED ConcRest

\* line 527, the row groups and the footer are written; line 529. The file is
\* whole once no other process is still writing into it
WriteAndReturn(p) ==
    /\ proc[p].pc = "writing"
    /\ proc' = [proc EXCEPT ![p] = Finished(p, Ok(proc[p].local))]
    /\ cache' = [exists |-> TRUE, mtime |-> now,
                 data |-> IF \E q \in Procs \ {p} : proc[q].pc = "writing"
                          THEN NoFile ELSE to_parquet(proc[p].local),
                 by |-> "load_data", returned |-> proc[p].local]
    /\ UNCHANGED ConcRest

ConcNext ==
    \/ \E p \in Procs : \E force_refresh \in BOOLEAN : StartCall(p, force_refresh)
    \/ \E p \in Procs : ReadFooter(p)
    \/ \E p \in Procs : \E cut \in 1..(Len(DatasetColumns)) : ReadHead(p, cut)
    \/ \E p \in Procs : \E decodes \in BOOLEAN : ReadTail(p, decodes)
    \/ \E p \in Procs : RunPipelineOf(p, Pipeline(src, csv))
    \/ \E p \in Procs : Truncate(p)
    \/ \E p \in Procs : WriteAndReturn(p)

SpecConc == ConcInit /\ [][ConcNext]_vars

\* the dataset a call returns from a whole file
Contents(file) == SchemaValidate(read_parquet(file), CacheLoadLazy).data

\* the datasets of whole artifacts during the call of p: the one it found,
\* the ones the writers put there
WholeContents(p) ==
    (IF Complete(proc[p].atStart.data) THEN {Contents(proc[p].atStart.data)} ELSE {})
        \cup {proc[q].local : q \in {w \in Procs : proc[w].pc \in {"writing", "done"}
                                                  /\ proc[w].local # NoDataset}}

ReturnedOk(p) == proc[p].pc = "done" /\ proc[p].result.kind = "ok"

\* no forced call so far
OnlyReaders == \A p \in Procs : ~proc[p].force

\* among non-forced calls on a fresh artifact no one writes it, and the
\* datasets returned are the same
C16_ReadersAgree ==
    OnlyReaders =>
        \A p \in Procs : proc[p].pc # "idle" =>
            /\ CacheIsFresh(FALSE, proc[p].atStart, src) => cache = proc[p].atStart
            /\ \A q \in Procs :
                   ReturnedOk(p) /\ ReturnedOk(q) => proc[p].result.data = proc[q].result.data

\* a non-forced call returns the contents of a whole artifact
C16_ReaderSeesWhole ==
    \A p \in Procs :
        ~proc[p].force /\ ReturnedOk(p) => proc[p].result.data \in WholeContents(p)

\* C16: Concurrent readers are safe. Non-forced calls of load_data running
\* at once against a fresh artifact never write it and all return the same
\* dataset; a non-forced call running at once with a forced one never
\* returns a dataset other than the whole old artifact or the whole new one.
C16_ConcurrentReaders == C16_ReadersAgree /\ C16_ReaderSeesWhole


\* the command validate ended, and found no artifact when it started
ValidatedNothing == pc = "idle" /\ call.op = "validate" /\ ~call.atStart.cacheExists

\* C17: The command validate of the CLI, when the artifact does not exist,
\* ends with a non-zero exit status and a message telling to run ingest
\* first; it neither runs the pipeline (no workbook is read) nor creates the
\* artifact.
C17_ValidateWithoutArtifact ==
    ValidatedNothing =>
        /\ ExitStatus(result) # 0
        /\ result.error.type = "ClickException"
        /\ result.error.message = "Ejecuta primero mortalidad ingest."
        /\ call.read = {} /\ ~call.wrote
        /\ ~cache.exists

\* validate found no artifact although the three workbooks were there to
\* build it from
C17_NothingToValidate ==
    /\ ValidatedNothing
    /\ \A f \in Sources : call.atStart.exists[f]
    /\ Pipeline(src, csv).ok
    /\ result.kind = "error"


-----------------------------------------------------------------------------
(* The dashboard: get_filters_state over _CACHE, a SimpleCache whose entries *)
(* each expire CACHE_TIMEOUT after they were set                             *)

\* settings.cache_timeout (300 s), in ticks of the clock
CACHE_TIMEOUT == 2

MaxCalls == 4

_BASE_DATA_KEY == <<"mortality_base_dataframe">>

\* SimpleCache.get(key) is not None: the entry is there and has not expired
Live(entries, key, t) == \E e \in entries : e.key = key /\ e.expires > t

\* SimpleCache.get(key)
Get(entries, key) == (CHOOSE e \in entries : e.key = key).value

\* SimpleCache.set(key, value): expires at time() + default_timeout
Set(entries, key, value, t) ==
    {e \in entries : e.key # key}
        \cup {[key |-> key, value |-> value, expires |-> t + CACHE_TIMEOUT]}

\* lines 64-67
_sanitize_select(value) ==
    IF value.t = "none" \/ value.v \in {<<>>, <<"a", "l", "l">>, <<"T", "o", "d", "o", "s">>}
    THEN None ELSE TxtCell(value.v)

MinOf(S) == CHOOSE x \in S : \A y \in S : x <= y

\* lines 70-77: the first and the last of the sorted values, clamped to 1..12
_sanitize_months(months) ==
    IF months = <<>> THEN <<1, 12>>
    ELSE LET values == SeqToSet(months)
         IN  <<Max({1, MinOf(values)}), MinOf({12, Max(values)})>>

\* "::".join(parts)
RECURSIVE Join(_)
Join(parts) ==
    IF Len(parts) = 1 THEN parts[1]
    ELSE parts[1] \o <<":", ":">> \o Join(Tail(parts))

\* lines 49-61
_filters_cache_key(depto, muni, sex, homicide_only, month_range) ==
    Join(<<IF depto.t = "none" THEN <<"a", "l", "l">> ELSE depto.v,
           IF muni.t = "none" THEN <<"a", "l", "l">> ELSE muni.v,
           sex,
           IF homicide_only THEN <<"1">> ELSE <<"0">>,
           Digits(month_range[1]) \o <<"-">> \o Digits(month_range[2])>>)

\* line 93: str(sex_value or "all").upper()
SexOf(sex_value) ==
    IF sex_value.t = "none" \/ sex_value.v = <<>> THEN <<"A", "L", "L">>
    ELSE Upper(sex_value.v)

\* lines 94-96
HomicideOnly(homicide_values) ==
    homicide_values # {} /\ <<"x", "9", "5">> \in {Lower(item) : item \in homicide_values}

\* lines 107-119 on the rows of the base dataset
FilterRows(rows, department, municipality, sex, homicide_only, month_range) ==
    SelectSeq(rows, LAMBDA r :
        /\ r.mes >= month_range[1] /\ r.mes <= month_range[2]
        /\ department.t # "none" => r.depto_cod = department.v
        /\ municipality.t # "none" => r.muni_cod = municipality.v
        /\ sex \in {<<"M">>, <<"F">>} => r.sexo = sex
        /\ homicide_only => r.homicidio_x95 = 1)

\* lines 90-100: the key of a selection
KeyOfSelection(sel) ==
    _filters_cache_key(_sanitize_select(sel.department), _sanitize_select(sel.municipality),
                       SexOf(sel.sex), HomicideOnly(sel.homicide),
                       _sanitize_months(sel.months))

\* lines 106-119: the filtered frame
Filtered(df, sel) ==
    [df EXCEPT !.rows =
        FilterRows(df.rows, _sanitize_select(sel.department),
                   _sanitize_select(sel.municipality), SexOf(sel.sex),
                   HomicideOnly(sel.homicide), _sanitize_months(sel.months))]

\* load_data(force_refresh=False) as one call: what it returns or raises, and
\* the artifact it leaves
load_data(artifact, files, catalog, t) ==
    IF artifact.exists /\ \A f \in Sources : ~files[f].exists
    THEN [result |-> Raised(Error("ValueError", "_latest_modification")),
          artifact |-> artifact]
    ELSE IF CacheIsFresh(FALSE, artifact, files)
    THEN [result |-> CacheOutcome(SchemaValidate(read_parquet(artifact.data), CacheLoadLazy)),
          artifact |-> artifact]
    ELSE LET run == Pipeline(files, catalog)
         IN  IF run.ok
             THEN [result |-> Ok(run.data),
                   artifact |-> [exists |-> TRUE, mtime |-> t, data |-> to_parquet(run.data),
                                 by |-> "load_data", returned |-> run.data]]
             ELSE [result |-> Raised(run.error), artifact |-> artifact]

\* the selections of the user
Text11 == <<"1", "1">>

Selections ==
    {[department |-> None, municipality |-> None, sex |-> None, homicide |-> {},
      months |-> <<>>],
     [department |-> TxtCell(Text11), municipality |-> TxtCell(<<"1", "1", "0", "0", "1">>),
      sex |-> TxtCell(<<"M">>), homicide |-> {<<"x", "9", "5">>}, months |-> <<5>>],
     [department |-> TxtCell(<<"T", "o", "d", "o", "s">>), municipality |-> TxtCell(<<>>),
      sex |-> TxtCell(<<"N", "R">>), homicide |-> {<<"o", "t", "r", "o">>},
      months |-> <<6, 2>>],
     [department |-> TxtCell(<<"0", "5">>), municipality |-> None,
      sex |-> TxtCell(<<"F">>), homicide |-> {}, months |-> <<0, 13>>]}

DashInit ==
    /\ now = 0
    /\ \E folder \in DataFolders :
        /\ src = [f \in Sources |-> [exists |-> TRUE, mtime |-> 0, id |-> folder.workbooks[f]]]
        /\ csv = [exists |-> folder.catalog # "none", mtime |-> 0, id |-> folder.catalog]
    /\ cache = NoArtifact
    /\ pc = "idle"
    /\ call = NoCall
    /\ local = NoDataset
    /\ result = NoResult
    /\ base = NoBase
    /\ envSteps = 0
    /\ probe = NoProbe
    /\ proc = NoProcs
    /\ dash = NoDash

DashRest == <<now, src, csv, pc, call, local, base, envSteps, proc>>

\* the call of get_filters_state is over
Called(sel, how) ==
    probe' = [fn |-> "get_filters_state", value |-> sel, width |-> 0, done |-> TRUE,
              out |-> how]

\* lines 106-121 with the base dataset df
ComputeAndStore(sel, df, entries) ==
    /\ result' = Ok(Filtered(df, sel))
    /\ dash' = [entries |-> Set(entries, KeyOfSelection(sel), Filtered(df, sel), now),
                calls |-> dash.calls + 1]

\* lines 40-46 when the base entry is missing or expired, then lines 107-121
LoadAndCompute(sel, loaded) ==
    /\ cache' = loaded.artifact
    /\ IF loaded.result.kind = "error"
       THEN /\ result' = loaded.result
            /\ dash' = [dash EXCEPT !.calls = @ + 1]
       ELSE ComputeAndStore(sel, loaded.result.data,
                            Set(dash.entries, _BASE_DATA_KEY, loaded.result.data, now))

\* get_filters_state(...), lines 83-121
GetFiltersState(sel) ==
    /\ dash.calls < MaxCalls
    /\ IF Live(dash.entries, KeyOfSelection(sel), now)
       THEN /\ result' = Ok(Get(dash.entries, KeyOfSelection(sel)))
            /\ dash' = [dash EXCEPT !.calls = @ + 1]
            /\ Called(sel, "cached")
            /\ UNCHANGED cache
       ELSE IF Live(dash.entries, _BASE_DATA_KEY, now)
       THEN /\ ComputeAndStore(sel, Get(dash.entries, _BASE_DATA_KEY), dash.entries)
            /\ Called(sel, "computed")
            /\ UNCHANGED cache
       ELSE /\ LoadAndCompute(sel, load_data(cache, src, csv, now))
            /\ Called(sel, "loaded")
    /\ UNCHANGED DashRest

\* time passes
DashTick ==
    /\ now < MaxTime
    /\ now' = now + 1
    /\ UNCHANGED <<src, csv, cache, pc, call, local, result, base, envSteps, probe, proc, dash>>

\* an ingestion elsewhere replaces the artifact
ReplaceArtifact(file) ==
    /\ envSteps < MaxEnvSteps
    /\ envSteps' = envSteps + 1
    /\ cache' = [exists |-> TRUE, mtime |-> now, data |-> file, by |-> "other",
                 returned |-> NoDataset]
    /\ UNCHANGED <<now, src, csv, pc, call, local, result, base, probe, proc, dash>>

DashNext ==
    \/ \E sel \in Selections : GetFiltersState(sel)
    \/ DashTick
    \/ \E file \in EarlierArtifacts(src, csv) : ReplaceArtifact(file)

SpecDash == DashInit /\ [][DashNext]_vars

\* the rows the selection asks for: those of the months from the smallest to
\* the largest selected one (of every month when none is selected), of the
\* selected department and municipality, of the sex M or F when selected, and
\* the homicides when x95 is among the homicide values
Chosen(cell) ==
    cell.t # "none" /\ cell.v \notin {<<>>, <<"a", "l", "l">>, <<"T", "o", "d", "o", "s">>}

Asked(rows, sel) ==
    SelectSeq(rows, LAMBDA r :
        /\ sel.months # <<>> =>
              \A m \in SeqToSet(sel.months) :
                  (\A k \in SeqToSet(sel.months) : m <= k) => r.mes >= m
        /\ sel.months # <<>> =>
              \A m \in SeqToSet(sel.months) :
                  (\A k \in SeqToSet(sel.months) : m >= k) => r.mes <= m
        /\ Chosen(sel.department) => r.depto_cod = sel.department.v
        /\ Chosen(sel.municipality) => r.muni_cod = sel.municipality.v
        /\ (sel.sex.t # "none" /\ sel.sex.v \in {<<"M">>, <<"F">>}) => r.sexo = sel.sex.v
        /\ <<"x", "9", "5">> \in sel.homicide => r.homicidio_x95 = 1)

\* get_filters_state returned, and the base dataset is in _CACHE
Answered ==
    /\ probe.fn = "get_filters_state"
    /\ result.kind = "ok"
    /\ Live(dash.entries, _BASE_DATA_KEY, now)

\* C18: get_filters_state returns exactly the rows of the current base
\* dataset that the selection asks for, after every sequence of calls, also
\* when the call is answered from the per-filter entry of _CACHE after the
\* entry of the base dataset expired and was loaded again.
C18_FiltersState ==
    Answered => result.data.rows = Asked(Get(dash.entries, _BASE_DATA_KEY).rows, probe.value)

\* the same of the calls that were not answered from a per-filter entry
C18_Computed ==
    Answered /\ probe.out # "cached" =>
        result.data.rows = Asked(Get(dash.entries, _BASE_DATA_KEY).rows, probe.value)


-----------------------------------------------------------------------------
(* The pipeline on a register of one death of the year/month scheme, in      *)
(* every way a spreadsheet can hold the codes of its municipality            *)

\* the municipality 001 of the departments 05 and 11
ProbeDepartments == {5, 11}

\* a code as a spreadsheet cell: an integer, a float (a column with an empty
\* cell is read as float64), or text padded with zeros to the given width
CodeCells(n, width) == {IntCell(n), FltCell(n), TxtCell(ZFill(Digits(n), width))}

\* COD_DANE: no such column, or the five-digit code
DaneCells(d) ==
    {None} \cup CodeCells(d * 1000 + 1, 5)
        \cup {TxtCell(<<" ">> \o ZFill(Digits(d * 1000 + 1), 5) \o <<" ">>)}

\* COD_MUNICIPIO: the part of the municipality, or the five-digit code
MuniCells(d) == CodeCells(1, 3) \cup {IntCell(d * 1000 + 1), TxtCell(ZFill(Digits(d * 1000 + 1), 5))}

\* the registry's first row with these codes
OneDeath(dept, muni, dane) ==
    LET row == [RecordsRegistry.rows[1] EXCEPT !["COD_DEPARTAMENTO"] = dept,
                                               !["COD_MUNICIPIO"] = muni]
    IN  IF dane.t = "none" THEN Table(RecordsRegistry.columns, <<row>>)
        ELSE Table(Append(RecordsRegistry.columns, "COD_DANE"),
                   <<row @@ ("COD_DANE" :> dane)>>)

RecordsInputs ==
    UNION {{OneDeath(dept, muni, dane) :
                dept \in CodeCells(d, 2), muni \in MuniCells(d), dane \in DaneCells(d)} :
           d \in ProbeDepartments}

RecordsInit ==
    /\ probe \in {[fn |-> "pipeline", value |-> sheet, width |-> 0, done |-> FALSE,
                   out |-> <<>>] : sheet \in RecordsInputs}
    /\ now = 0
    /\ src = [f \in Sources |-> [exists |-> TRUE, mtime |-> 0, id |-> RegistryFolder[f]]]
    /\ csv = [exists |-> FALSE, mtime |-> 0, id |-> "none"]
    /\ cache = NoArtifact
    /\ pc = "idle"
    /\ call = NoCall
    /\ local = NoDataset
    /\ result = NoResult
    /\ base = NoBase
    /\ envSteps = 0
    /\ proc = NoProcs
    /\ dash = NoDash

\* lines 513-524 with the register under test and the registry's catalogs
PipelineOn(sheet) ==
    PipelineMerge(_prepare_records(sheet),
                  _prepare_causes(ReadCauses(src["causes"].id)),
                  _prepare_divipola(DivipolaContent(src["divipola"].id),
                                    [exists |-> FALSE, content |-> NoTable]))

PipelineStep ==
    /\ probe.fn = "pipeline"
    /\ ~probe.done
    /\ probe' = [probe EXCEPT !.done = TRUE, !.out = PipelineOn(probe.value)]
    /\ UNCHANGED mainVars

SpecRecords == RecordsInit /\ [][PipelineStep]_vars

\* the pipeline returned a dataset for the register
Ingested == probe.fn = "pipeline" /\ probe.done /\ probe.out.ok

\* C19: In every row of every dataset load_data returns, muni_cod starts with
\* the row's depto_cod, in both schemes of the register, also when a column
\* COD_DANE is present and when COD_MUNICIPIO already carries the prefix of
\* the department.
C19_MuniStartsWithDepto ==
    Ingested =>
        \A i \in 1..Len(probe.out.data.rows) :
            HasPrefix(probe.out.data.rows[i].muni_cod, probe.out.data.rows[i].depto_cod)

\* the shape of the three codes of a row
CodeShape(r) ==
    /\ Len(r.depto_cod) = 2 /\ AllDigits(r.depto_cod)
    /\ Len(r.muni_cod) = 5 /\ AllDigits(r.muni_cod)
    /\ Len(r.causa_cod) >= 3 /\ Len(r.causa_cod) <= 5 /\ Upper(r.causa_cod) = r.causa_cod

\* C20: In every row of every dataset load_data returns, depto_cod is a
\* string of exactly 2 digits, muni_cod a string of exactly 5 digits and
\* causa_cod an upper-case string of 3 to 5 characters; a dataset with a code
\* of another shape is rejected by the validation of the schema.
C20_CodeShapes ==
    probe.fn = "pipeline" /\ probe.done =>
        /\ probe.out.ok =>
              \A i \in 1..Len(probe.out.data.rows) : CodeShape(probe.out.data.rows[i])
        /\ (\E i \in 1..Len(probe.out.input.rows) : ~CodeShape(probe.out.input.rows[i]))
              => ~probe.out.ok


-----------------------------------------------------------------------------
(* _prepare_records on registers with a date column: every choice of the     *)
(* synonym columns of RECORDS_COLUMN_MAP                                     *)

\* the synonyms in the order of the table
RecordHeaders ==
    <<"DPTO_OCURRE", "DEPTO_OCURRE", "MUN_OCURRE", "MUNI_OCURRE", "SEXO", "SEXO_DEF",
      "GRUPO_EDAD1", "FECHA_DEF", "FECHA_OCURR", "CAUSA_DEF", "COD_DEPARTAMENTO",
      "COD_MUNICIPIO", "COD_MUERTE">>

\* the cell of the test register for a canonical field
FieldCell(field) ==
    CASE field = "depto_cod" -> IntCell(11)
      [] field = "muni_cod" -> IntCell(11001)
      [] field = "sexo" -> TxtCell(<<"M">>)
      [] field = "grupo_edad" -> IntCell(5)
      [] field = "fecha" -> DateCell(<<"2", "0", "1", "9", "-", "0", "5", "-", "1", "0">>)
      [] OTHER -> TxtCell(<<"x", "9", "5">>)

\* a register of one death with these columns
DatedRegister(headers) ==
    Table(SelectSeq(RecordHeaders, LAMBDA c : c \in headers),
          <<[c \in headers |-> FieldCell(RECORDS_COLUMN_MAP[c])]>>)

DatedInputs ==
    {DatedRegister(headers) :
        headers \in {h \in SUBSET SeqToSet(RecordHeaders) :
                        h \cap {"FECHA_DEF", "FECHA_OCURR"} # {}}}

DatedInit ==
    /\ probe \in {[fn |-> "_prepare_records", value |-> sheet, width |-> 0,
                   done |-> FALSE, out |-> <<>>] : sheet \in DatedInputs}
    /\ now = 0
    /\ src = [f \in Sources |-> [exists |-> TRUE, mtime |-> 0, id |-> "test"]]
    /\ csv = [exists |-> FALSE, mtime |-> 0, id |-> "none"]
    /\ cache = NoArtifact
    /\ pc = "idle"
    /\ call = NoCall
    /\ local = NoDataset
    /\ result = NoResult
    /\ base = NoBase
    /\ envSteps = 0
    /\ proc = NoProcs
    /\ dash = NoDash

PrepareRecordsStep ==
    /\ probe.fn = "_prepare_records"
    /\ ~probe.done
    /\ probe' = [probe EXCEPT !.done = TRUE, !.out = _prepare_records(probe.value)]
    /\ UNCHANGED mainVars

SpecDated == DatedInit /\ [][PrepareRecordsStep]_vars

\* the canonical fields no column of the register supplies
MissingFields(sheet) ==
    {RECORDS_COLUMN_MAP[c] : c \in DOMAIN RECORDS_COLUMN_MAP}
        \ {RECORDS_COLUMN_MAP[c] : c \in SeqToSet(sheet.columns) \cap DOMAIN RECORDS_COLUMN_MAP}

\* C21: Date-columns scheme. A register with a date column (FECHA_DEF or
\* FECHA_OCURR) is read successfully whenever each of the six canonical
\* fields is supplied by at least one of its synonym columns; a structural
\* error is raised only when some field has no synonym present, and it names
\* exactly the fields that are missing.
C21_DateScheme ==
    probe.fn = "_prepare_records" /\ probe.done =>
        /\ MissingFields(probe.value) = {} => probe.out.ok
        /\ ~probe.out.ok /\ probe.out.error.where = "_prepare_records" =>
              /\ MissingFields(probe.value) # {}
              /\ {RECORDS_COLUMN_MAP[c] : c \in probe.out.error.cols}
                    = MissingFields(probe.value)


-----------------------------------------------------------------------------
(* _prepare_causes on flat catalogs: every choice of the header synonyms of  *)
(* CAUSES_COLUMN_MAP, two entries                                            *)

FlatHeaders == <<"CODIGO", "COD_CAUSA", "DESCRIPCION", "NOMBRE">>

\* codes as they are typed: lower case, blanks around them
FlatCodes == {<<"X", "9", "5">>, <<" ", "x", "9", "5", " ">>, <<"a", "0", "0", "0">>}

FlatEntry(headers, code) ==
    [c \in headers |->
        IF CAUSES_COLUMN_MAP[c] = "causa_cod" THEN TxtCell(code)
        ELSE TxtCell(<<"A", "g", "r", "e", "s", "i", "o", "n">>)]

FlatCatalogs ==
    {Table(SelectSeq(FlatHeaders, LAMBDA c : c \in headers),
           <<FlatEntry(headers, first), FlatEntry(headers, second)>>) :
        headers \in SUBSET SeqToSet(FlatHeaders), first \in FlatCodes, second \in FlatCodes}

FlatInit ==
    /\ probe \in {[fn |-> "_prepare_causes", value |-> t, width |-> 0,
                   done |-> FALSE, out |-> <<>>] : t \in FlatCatalogs}
    /\ now = 0
    /\ src = [f \in Sources |-> [exists |-> TRUE, mtime |-> 0, id |-> "test"]]
    /\ csv = [exists |-> FALSE, mtime |-> 0, id |-> "none"]
    /\ cache = NoArtifact
    /\ pc = "idle"
    /\ call = NoCall
    /\ local = NoDataset
    /\ result = NoResult
    /\ base = NoBase
    /\ envSteps = 0
    /\ proc = NoProcs
    /\ dash = NoDash

SpecFlat == FlatInit /\ [][PrepareCausesStep]_vars

\* the headers of the catalog that name the canonical column
HeadersOf(sheet, canonical) ==
    {c \in SeqToSet(sheet.columns) \cap DOMAIN CAUSES_COLUMN_MAP :
        CAUSES_COLUMN_MAP[c] = canonical}

\* the upper-cased, trimmed codes of the catalog
FlatCodesOf(sheet) ==
    {Upper(Strip(sheet.rows[i][c].v)) :
        i \in 1..Len(sheet.rows), c \in HeadersOf(sheet, "causa_cod")}

\* C22: Flat cause catalog. A two-column table with one accepted code header
\* (CODIGO or COD_CAUSA) and one accepted description header (DESCRIPCION or
\* NOMBRE) is accepted by _prepare_causes and yields one entry per distinct
\* upper-cased, trimmed code; it fails only when no code header or no
\* description header is present.
C22_FlatCatalog ==
    probe.fn = "_prepare_causes" /\ probe.done =>
        /\ (Cardinality(HeadersOf(probe.value, "causa_cod")) = 1
            /\ Cardinality(HeadersOf(probe.value, "causa")) = 1) =>
              /\ probe.out.ok
              /\ Len(probe.out.rows) = Cardinality(FlatCodesOf(probe.value))
              /\ {probe.out.rows[i].causa_cod : i \in 1..Len(probe.out.rows)}
                    = FlatCodesOf(probe.value)
        /\ ~probe.out.ok =>
              HeadersOf(probe.value, "causa_cod") = {} \/ HeadersOf(probe.value, "causa") = {}


-----------------------------------------------------------------------------
(* _prepare_divipola on the headers of the primary sheet: for each canonical *)
(* column one of its two spellings of DIVIPOLA_COLUMN_MAP or none, with or    *)
(* without the name columns of the alternate shape; no optional source       *)

GeoHeaders ==
    <<"COD_DEPTO", "COD_DEPARTAMENTO", "NOM_DEPTO", "NOM_DEPARTAMENTO", "COD_MPIO",
      "COD_MUNICIPIO", "NOM_MPIO", "NOM_MUNICIPIO", "LAT", "LATITUD", "LON", "LONGITUD",
      "DEPARTAMENTO", "MUNICIPIO">>

\* the cell of the municipality 11001 under a header
GeoCell(header) ==
    CASE header \in {"COD_DEPTO", "COD_DEPARTAMENTO"} -> IntCell(11)
      [] header = "COD_MPIO" -> IntCell(11001)
      [] header = "COD_MUNICIPIO" -> IntCell(1)
      [] header \in {"LAT", "LATITUD"} -> Coord(47)
      [] header \in {"LON", "LONGITUD"} -> Coord(-741)
      [] OTHER -> TxtCell(<<"B">>)

\* at most one spelling of each canonical column
OneSpellingEach(headers) ==
    \A c, d \in headers \cap DOMAIN DIVIPOLA_COLUMN_MAP :
        DIVIPOLA_COLUMN_MAP[c] = DIVIPOLA_COLUMN_MAP[d] => c = d

ShapeInputs ==
    {Table(SelectSeq(GeoHeaders, LAMBDA c : c \in headers),
           <<[c \in headers |-> GeoCell(c)]>>) :
        headers \in {h \in SUBSET SeqToSet(GeoHeaders) : OneSpellingEach(h)}}

ShapeInit ==
    /\ probe \in {[fn |-> "primary shape", value |-> sheet, width |-> 0,
                   done |-> FALSE, out |-> <<>>] : sheet \in ShapeInputs}
    /\ now = 0
    /\ src = [f \in Sources |-> [exists |-> TRUE, mtime |-> 0, id |-> "test"]]
    /\ csv = [exists |-> FALSE, mtime |-> 0, id |-> "none"]
    /\ cache = NoArtifact
    /\ pc = "idle"
    /\ call = NoCall
    /\ local = NoDataset
    /\ result = NoResult
    /\ base = NoBase
    /\ envSteps = 0
    /\ proc = NoProcs
    /\ dash = NoDash

\* _prepare_divipola on a workbook of this one sheet, without the csv
PrimaryShapeStep ==
    /\ probe.fn = "primary shape"
    /\ ~probe.done
    /\ probe' = [probe EXCEPT
                    !.done = TRUE,
                    !.out = _prepare_divipola(
                                [sheet |-> probe.value, hasHoja3 |-> FALSE, hoja3 |-> NoTable],
                                [exists |-> FALSE, content |-> NoTable])]
    /\ UNCHANGED mainVars

SpecShape == ShapeInit /\ [][PrimaryShapeStep]_vars

\* every canonical column has a spelling among the headers
PrimaryShape(sheet) ==
    {DIVIPOLA_COLUMN_MAP[c] : c \in SeqToSet(sheet.columns) \cap DOMAIN DIVIPOLA_COLUMN_MAP}
        = GeoColumns

AlternateShape(sheet) ==
    {"COD_DEPARTAMENTO", "COD_MUNICIPIO", "DEPARTAMENTO", "MUNICIPIO"}
        \subseteq SeqToSet(sheet.columns)

\* C23: Geo catalog primary shape. A table whose six columns use any of the
\* spellings of DIVIPOLA_COLUMN_MAP (as COD_DEPTO, NOM_DEPTO, COD_MPIO,
\* NOM_MPIO, LAT, LON) is accepted by _prepare_divipola and projected to
\* depto_cod, depto, muni_cod, municipio, lat, lon; it fails only when
\* neither this shape nor the alternate one matches.
C23_PrimaryShape ==
    probe.fn = "primary shape" /\ probe.done =>
        /\ PrimaryShape(probe.value) =>
              /\ probe.out.ok
              /\ \A i \in 1..Len(probe.out.rows) : DOMAIN probe.out.rows[i] = GeoColumns
        /\ ~probe.out.ok => ~PrimaryShape(probe.value) /\ ~AlternateShape(probe.value)

-----------------------------------------------------------------------------
(* _prepare_records on registers of the year/month scheme whose AÑO and MES  *)
(* cells vary over usable and unusable values                                *)

YearCells == {IntCell(2019), IntCell(2018), TxtCell(<<"x">>), NaN}

MonthCells == {IntCell(5), IntCell(0), IntCell(13), IntCell(112), NaN}

\* two deaths, told apart by their cause
MonthlyRegister(y1, m1, y2, m2) ==
    Table(RecordsRegistry.columns,
          <<[RecordsRegistry.rows[1] EXCEPT !["AÑO"] = y1, !["MES"] = m1,
                                            !["COD_MUERTE"] = TxtCell(<<"X", "9", "5">>)],
            [RecordsRegistry.rows[1] EXCEPT !["AÑO"] = y2, !["MES"] = m2,
                                            !["COD_MUERTE"] = TxtCell(<<"R", "9", "9">>)]>>)

MonthlyInputs ==
    {MonthlyRegister(y1, m1, y2, m2) :
        y1 \in YearCells, m1 \in MonthCells, y2 \in YearCells, m2 \in MonthCells}

MonthlyInit ==
    /\ probe \in {[fn |-> "_prepare_records", value |-> sheet, width |-> 0,
                   done |-> FALSE, out |-> <<>>] : sheet \in MonthlyInputs}
    /\ now = 0
    /\ src = [f \in Sources |-> [exists |-> TRUE, mtime |-> 0, id |-> "test"]]
    /\ csv = [exists |-> FALSE, mtime |-> 0, id |-> "none"]
    /\ cache = NoArtifact
    /\ pc = "idle"
    /\ call = NoCall
    /\ local = NoDataset
    /\ result = NoResult
    /\ base = NoBase
    /\ envSteps = 0
    /\ proc = NoProcs
    /\ dash = NoDash

SpecMonthly == MonthlyInit /\ [][PrepareRecordsStep]_vars

\* AÑO and MES name a month of the calendar
NamesAMonth(row) ==
    /\ row["AÑO"].t = "int" /\ row["AÑO"].n \in 1678..2261
    /\ row["MES"].t = "int" /\ row["MES"].n \in 1..12

\* C24: Lenient year/month scheme. Every row whose AÑO/MES cannot be turned
\* into a first-of-month date is dropped without any error, every other row
\* is kept with fecha equal to the first day of its year/month, and the read
\* does not fail because of the bad rows.
C24_LenientYearMonth ==
    probe.fn = "_prepare_records" /\ probe.done =>
        LET good == SelectSeq(probe.value.rows, NamesAMonth)
        IN  /\ probe.out.ok
            /\ Len(probe.out.rows) = Len(good)
            /\ \A i \in 1..Len(good) :
                  /\ i <= Len(probe.out.rows)
                  /\ probe.out.rows[i].causa_cod = good[i]["COD_MUERTE"].v
                  /\ probe.out.rows[i].fecha = Date(good[i]["AÑO"].n, good[i]["MES"].n, 1)

-----------------------------------------------------------------------------
(* The pipeline on registers whose GRUPO_EDAD1 cells vary over buckets of    *)
(* the table of labels and integers outside it                               *)

AgeCells ==
    {IntCell(1), IntCell(5), IntCell(12), IntCell(0), IntCell(13), IntCell(99),
     IntCell(65541), IntCell(65549)}

\* two deaths, told apart by their cause
AgedRegister(a1, a2) ==
    Table(RecordsRegistry.columns,
          <<[RecordsRegistry.rows[1] EXCEPT !["GRUPO_EDAD1"] = a1,
                                            !["COD_MUERTE"] = TxtCell(<<"X", "9", "5">>)],
            [RecordsRegistry.rows[1] EXCEPT !["GRUPO_EDAD1"] = a2,
                                            !["COD_MUERTE"] = TxtCell(<<"R", "9", "9">>)]>>)

AgedInit ==
    /\ probe \in {[fn |-> "pipeline", value |-> AgedRegister(a1, a2), width |-> 0,
                   done |-> FALSE, out |-> <<>>] : a1 \in AgeCells, a2 \in AgeCells}
    /\ now = 0
    /\ src = [f \in Sources |-> [exists |-> TRUE, mtime |-> 0, id |-> RegistryFolder[f]]]
    /\ csv = [exists |-> FALSE, mtime |-> 0, id |-> "none"]
    /\ cache = NoArtifact
    /\ pc = "idle"
    /\ call = NoCall
    /\ local = NoDataset
    /\ result = NoResult
    /\ base = NoBase
    /\ envSteps = 0
    /\ proc = NoProcs
    /\ dash = NoDash

SpecAged == AgedInit /\ [][PipelineStep]_vars

\* the age group of the register's row is a bucket of the table of labels
InBucket(row) == row["GRUPO_EDAD1"].n \in DOMAIN GRUPO_EDAD_LABELS

\* C25: Age-group filtering. Every row of a dataset returned by the pipeline
\* has grupo_edad in 1..12 and the fixed label of that bucket; records whose
\* grupo_edad is an integer outside 1..12 are dropped before validation and
\* never cause a validation failure, and no other record is dropped.
C25_AgeGroups ==
    probe.fn = "pipeline" /\ probe.done =>
        LET kept == SelectSeq(probe.value.rows, InBucket)
        IN  /\ probe.out.ok
            /\ \A i \in 1..Len(probe.out.data.rows) :
                  /\ probe.out.data.rows[i].grupo_edad \in 1..12
                  /\ probe.out.data.rows[i].grupo_edad_label
                        = GRUPO_EDAD_LABELS[probe.out.data.rows[i].grupo_edad]
            /\ Len(probe.out.data.rows) = Len(kept)
            /\ \A i \in 1..Len(kept) :
                  /\ i <= Len(probe.out.data.rows)
                  /\ probe.out.data.rows[i].causa_cod = kept[i]["COD_MUERTE"].v
                  /\ probe.out.data.rows[i].grupo_edad = kept[i]["GRUPO_EDAD1"].n

-----------------------------------------------------------------------------
(* Enrichment of the geographic catalog and the typing of the primary keys   *)

\* the sheet Hoja3 gives no latitude for the key: absent, or an empty cell
SheetLacksLat ==
    ~probe.value.book.hasHoja3 \/ probe.value.book.hoja3 = Hoja3Sheet(NaN, NaN)

\* C26: Enrichment matches on normalized keys. A primary-catalog entry whose
\* coordinate is null receives the value of the sheet Hoja3 (or, if still
\* null, of the external file) whenever that source has an entry whose codes
\* normalize to the same composite key and whose value is non-null, however
\* the raw codes of the primary catalog are typed or padded.
C26_NormalizedKeys ==
    (GeoProbed /\ probe.out.p0[1].lat = NaN)
        => /\ SheetHasLat => probe.out.final[1].lat = Num(50)
           /\ (SheetLacksLat /\ probe.value.catalog = FileWithCoords)
                => probe.out.final[1].lat = Num(60)

-----------------------------------------------------------------------------
(* The artifact and the outcome of the pipeline *)

\* the step in which a pipeline run of load_data ends with an exception
PipelineFails == pc = "stale" /\ pc' = "idle" /\ result'.kind = "error"

\* C27: The artifact is written only after validation succeeds. Whenever a
\* pipeline run fails (missing file, structural error, data error or
\* validation error) the artifact is left as it was before the call: absent
\* stays absent, an older artifact keeps its contents and modification time;
\* load_data writes the artifact only with a dataset the validation returned,
\* so every artifact written by load_data satisfies the schema.
C27_WrittenAfterValidation ==
    /\ [][/\ PipelineFails => cache' = cache
          /\ (pc = "idle" /\ pc' \in {"stale", "cached"}) => cache' = cache
          /\ (cache' # cache /\ cache'.by = "load_data") =>
                /\ pc = "persist"
                /\ SchemaValidate(local, PipelineLazy).ok
                /\ cache'.data = to_parquet(local)]_vars
    /\ [](cache.exists /\ cache.by = "load_data"
            => SchemaValidate(read_parquet(cache.data), CliLazy).ok)

\* a forced run failed its validation while an older artifact was there, and
\* the artifact has the time stamp it had when the call began
C27_OlderArtifactKept ==
    /\ pc = "idle" /\ call.op = "load_data" /\ call.path = "pipeline"
    /\ result.kind = "error" /\ result.error.type = "SchemaErrors"
    /\ call.atStart.cacheExists /\ ~call.dirty
    /\ cache.exists /\ cache.mtime = call.atStart.cacheMtime
    /\ cache.by = call.atStart.cacheBy

\* the artifact is there and does not satisfy the schema
InvalidArtifact ==
    cache.exists /\ ~SchemaValidate(read_parquet(cache.data), CacheLoadLazy).ok

\* no workbook is newer than the artifact
NoNewerSource == \A f \in Sources : src[f].exists => src[f].mtime <= cache.mtime

\* C28: A FRESH artifact that fails validation is never repaired implicitly.
\* load_data(force_refresh=False) raises the validation error, does not fall
\* back to the pipeline and leaves the artifact untouched, so every later
\* non-forced call takes the same path and fails, until a workbook becomes
\* newer than the artifact or force_refresh=True is used.
C28_NoImplicitRepair ==
    [][/\ (pc = "cached" /\ pc' # "cached" /\ InvalidArtifact) =>
              /\ pc' = "idle"
              /\ result'.kind = "error"
              /\ result'.error.type \in {"SchemaError", "SchemaErrors"}
              /\ call'.path = "fresh" /\ ~call'.wrote
              /\ cache' = cache
       /\ (pc = "idle" /\ pc' # "idle" /\ ~call'.force
                /\ InvalidArtifact /\ NoNewerSource) => pc' = "cached"
       /\ (pc = "idle" /\ InvalidArtifact /\ NoNewerSource
                /\ call'.op = "load_data" /\ ~call'.force) => pc' # "stale"]_vars

\* a non-forced call found the artifact of another program FRESH, raised the
\* validation error and left the artifact with its time stamp
C28_StillInvalid ==
    /\ pc = "idle" /\ call.op = "load_data" /\ ~call.force /\ call.path = "fresh"
    /\ result.kind = "error" /\ result.error.type = "SchemaError"
    /\ ~call.dirty /\ call.atStart.cacheBy = "other"
    /\ InvalidArtifact /\ NoNewerSource
    /\ cache.mtime = call.atStart.cacheMtime

\* C29: Whenever load_data finds the cache FRESH, the contents of the artifact
\* (one load_data wrote) equal the output of the pipeline on the current
\* contents of the source files, also when a source file was modified while
\* the pipeline run that wrote the artifact was in progress.
C29_FreshMeansCurrent ==
    (pc = "cached" /\ ~call.dirty /\ cache.exists /\ cache.by = "load_data")
        => /\ Pipeline(src, csv).ok
           /\ cache.data = to_parquet(Pipeline(src, csv).data)

-----------------------------------------------------------------------------
(* The merger on registers whose causes and municipalities are or are not    *)
(* in the catalogs, with catalog sheets that repeat a key                    *)

\* the wide sheet of causes; with `twice`, X95 a second time in lower case
RepeatedCauses(twice) ==
    Table(CausesWide.columns,
          <<CausesWide.rows[1]>>
            \o (IF twice
                THEN <<[CausesWide.rows[1] EXCEPT
                            ![code3_col] = TxtCell(<<"x", "9", "5">>),
                            ![desc3_col] = TxtCell(<<"O", "t", "r", "a">>)]>>
                ELSE <<>>)
            \o <<CausesWide.rows[3]>>)

\* the sheet of municipalities; with `twice`, 11001 a second time as text
RepeatedPlaces(twice) ==
    Table(DivipolaAlt.columns,
          <<DivipolaAlt.rows[1]>>
            \o (IF twice
                THEN <<[DivipolaAlt.rows[1] EXCEPT
                            !["COD_DEPARTAMENTO"] = TxtCell(<<"1", "1">>),
                            !["COD_MUNICIPIO"] = TxtCell(<<"0", "0", "1">>),
                            !["MUNICIPIO"] = TxtCell(<<"O", "T", "R", "A">>)]>>
                ELSE <<>>)
            \o <<DivipolaAlt.rows[2]>>)

\* a death of the register: its department, its cause, its age group, its sex
DeathCases ==
    {[dept |-> d, cause |-> c, age |-> a] :
        d \in {IntCell(11), IntCell(99)},
        c \in {TxtCell(<<"X", "9", "5">>), TxtCell(<<"Z", "9", "9">>)},
        a \in {IntCell(5), IntCell(13)}}

DeathRow(case, sex) ==
    [RecordsRegistry.rows[1] EXCEPT !["COD_DEPARTAMENTO"] = case.dept,
                                    !["COD_MUERTE"] = case.cause,
                                    !["GRUPO_EDAD1"] = case.age,
                                    !["SEXO"] = sex]

MergeInputs ==
    {[records |-> Table(RecordsRegistry.columns,
                        <<DeathRow(first, IntCell(1)), DeathRow(second, IntCell(2))>>),
      causes |-> RepeatedCauses(c),
      book |-> [sheet |-> RepeatedPlaces(g), hasHoja3 |-> FALSE, hoja3 |-> NoTable]] :
        first \in DeathCases, second \in DeathCases, c \in BOOLEAN, g \in BOOLEAN}

MergeInit ==
    /\ probe \in {[fn |-> "merge", value |-> v, width |-> 0, done |-> FALSE,
                   out |-> <<>>] : v \in MergeInputs}
    /\ now = 0
    /\ src = [f \in Sources |-> [exists |-> TRUE, mtime |-> 0, id |-> RegistryFolder[f]]]
    /\ csv = [exists |-> FALSE, mtime |-> 0, id |-> "none"]
    /\ cache = NoArtifact
    /\ pc = "idle"
    /\ call = NoCall
    /\ local = NoDataset
    /\ result = NoResult
    /\ base = NoBase
    /\ envSteps = 0
    /\ proc = NoProcs
    /\ dash = NoDash

\* lines 513-524 on the three sheets
MergeStep ==
    /\ probe.fn = "merge"
    /\ ~probe.done
    /\ probe' = [probe EXCEPT
                    !.done = TRUE,
                    !.out = PipelineMerge(_prepare_records(probe.value.records),
                                          _prepare_causes(probe.value.causes),
                                          _prepare_divipola(probe.value.book,
                                              [exists |-> FALSE, content |-> NoTable]))]
    /\ UNCHANGED mainVars

SpecMerge == MergeInit /\ [][MergeStep]_vars

\* the columns of the dataset that come from the register
RecordColumns ==
    {"depto_cod", "muni_cod", "sexo", "grupo_edad", "grupo_edad_label", "fecha", "anio",
     "mes", "causa_cod", "homicidio_x95"}

\* the canonical records of a known age group, in the order of the register
KnownAge(sheet) ==
    SelectSeq(_prepare_records(sheet).rows, LAMBDA r : r.grupo_edad \in 1..12)

\* C30: The merger neither duplicates nor loses records. The dataset the
\* pipeline produces has exactly one row per canonical record whose
\* grupo_edad is in 1..12, in the order of the records, whether or not the
\* cause or the municipality of the record is found in the catalogs, and
\* whether or not a catalog sheet repeats a key.
C30_OneRowPerRecord ==
    probe.fn = "merge" /\ probe.done =>
        /\ probe.out.ok
        /\ Len(probe.out.data.rows) = Len(KnownAge(probe.value.records))
        /\ \A i \in 1..Len(KnownAge(probe.value.records)) :
              /\ i <= Len(probe.out.data.rows)
              /\ \A c \in RecordColumns :
                    probe.out.data.rows[i][c] = KnownAge(probe.value.records)[i][c]

\* both catalog sheets repeat the key of the first record, the second record
\* is in neither catalog, and the dataset has the two records in their order
C30_FoundAndNotFound ==
    /\ probe.fn = "merge" /\ probe.done /\ probe.out.ok
    /\ probe.value.causes = RepeatedCauses(TRUE)
    /\ probe.value.book.sheet = RepeatedPlaces(TRUE)
    /\ Len(probe.out.data.rows) = 2
    /\ probe.out.data.rows[1].causa_cod = <<"X", "9", "5">>
    /\ probe.out.data.rows[1].muni_cod = <<"1", "1", "0", "0", "1">>
    /\ probe.out.data.rows[1].causa = <<"A", "g", "r", "e", "s", "i", "o", "n">>
    /\ probe.out.data.rows[2].causa_cod = <<"Z", "9", "9">>
    /\ probe.out.data.rows[2].muni_cod = <<"9", "9", "0", "0", "1">>
    /\ IsNA(probe.out.data.rows[2].causa)

====
